---------------------------- MODULE Spec2Model ----------------------------
(***************************************************************************)
(* A model of the habit analytics engine, src/lib/ai-analytics.ts          *)
(* (class HabitAnalyticsAI), and of the callers that feed it.              *)
(*                                                                         *)
(* Numbers.  The engine computes in IEEE doubles.  The model computes the  *)
(* same expressions over exact rationals <<n, d>> with d > 0; every        *)
(* comparison the code makes (>, <, >=, Math.min, Math.max, the sort       *)
(* comparator) is made on the exact values.                                *)
(*                                                                         *)
(* Dates.  An entry's date is a calendar day, modelled as a day number     *)
(* (day 0 is a Sunday); completedAt is modelled by its hour of day.        *)
(* Optional fields: hour = NoHour, timeOfDay = "", mood = 0 and            *)
(* difficulty = 0 model an absent field (all are falsy in the code's       *)
(* tests `e.completedAt`, `e.timeOfDay`, `e.mood`, `e.difficulty`).        *)
(***************************************************************************)
EXTENDS Integers, Sequences, FiniteSets, TLC

VARIABLES
    habits,               \* the snapshot handed to the engine: Seq(HabitData)
    usedRecommendations,  \* HabitAnalyticsAI.usedRecommendations: a set of keys
    allInsights,          \* analyzeHabits' local allInsights (before sort/slice)
    insights,             \* the value the last analyzeHabits call returned
    marked,               \* the insights passed to markRecommendationAsUsed
                          \*   since the set was last replaced
    lastKey,              \* the value the last markRecommendationAsUsed returned
    prediction,           \* the value the last predictor call returned
    storage,              \* localStorage 'usedRecommendations': a list of keys
    hydrated,             \* the keys last passed to setUsedRecommendations
    lastOp                \* the operation that ran last

vars == <<habits, usedRecommendations, allInsights, insights, marked, lastKey,
          prediction, storage, hydrated, lastOp>>

---------------------------------------------------------------------------
(* Bounds of the model. *)

MaxHabits == 2
MaxMarks == 2
Weeks == 3
MaxShort == 4

---------------------------------------------------------------------------
(* Exact rationals. *)

RECURSIVE GCD(_, _)
GCD(a, b) == IF b = 0 THEN a ELSE GCD(b, a % b)

Abs(x) == IF x < 0 THEN -x ELSE x

Rat(n, d) ==
    LET g == GCD(Abs(n), d) IN IF n = 0 THEN <<0, 1>> ELSE <<n \div g, d \div g>>

RLt(a, b) == a[1] * b[2] < b[1] * a[2]
RLe(a, b) == a[1] * b[2] <= b[1] * a[2]
RGt(a, b) == RLt(b, a)
RGe(a, b) == RLe(b, a)
RAdd(a, b) == Rat(a[1] * b[2] + b[1] * a[2], a[2] * b[2])
RSub(a, b) == Rat(a[1] * b[2] - b[1] * a[2], a[2] * b[2])
RMul(a, b) == Rat(a[1] * b[1], a[2] * b[2])
RMin(a, b) == IF RLt(b, a) THEN b ELSE a
RMax(a, b) == IF RGt(b, a) THEN b ELSE a

\* reduce((sum, x) => sum + x, 0), summed by halves to keep the evaluation flat
RECURSIVE SumIntsIn(_, _, _)
SumIntsIn(s, lo, hi) ==
    IF lo > hi THEN 0
    ELSE IF lo = hi THEN s[lo]
    ELSE SumIntsIn(s, lo, (lo + hi) \div 2) + SumIntsIn(s, (lo + hi) \div 2 + 1, hi)

SumInts(s) == SumIntsIn(s, 1, Len(s))

RECURSIVE SumRatsIn(_, _, _)
SumRatsIn(s, lo, hi) ==
    IF lo > hi THEN <<0, 1>>
    ELSE IF lo = hi THEN s[lo]
    ELSE RAdd(SumRatsIn(s, lo, (lo + hi) \div 2),
              SumRatsIn(s, (lo + hi) \div 2 + 1, hi))

SumRats(s) == SumRatsIn(s, 1, Len(s))

---------------------------------------------------------------------------
(* Sequence helpers: Array.prototype.filter / slice / sort.                 *)

\* Array.prototype.filter: the elements of s at the positions in I, in order
RECURSIVE PickIn(_, _, _, _)
PickIn(s, I, lo, hi) ==
    IF lo > hi THEN <<>>
    ELSE IF lo = hi THEN (IF lo \in I THEN <<s[lo]>> ELSE <<>>)
    ELSE PickIn(s, I, lo, (lo + hi) \div 2) \o PickIn(s, I, (lo + hi) \div 2 + 1, hi)

Pick(s, I) == PickIn(s, I, 1, Len(s))

\* s.slice(-n)
SliceLast(s, n) == IF Len(s) <= n THEN s ELSE SubSeq(s, Len(s) - n + 1, Len(s))

\* s.slice(0, n)
SliceFirst(s, n) == IF Len(s) <= n THEN s ELSE SubSeq(s, 1, n)

Positions(s) == (1..Len(s)) \X (1..Len(s))

\* Array.prototype.sort(compare), B being the pairs of positions <<i, j>> with
\* compare(s[i], s[j]) < 0.  The sort is stable (ECMAScript 2019): an element
\* is moved in front of another only when compare orders it strictly before it.
SortBy(s, B) ==
    LET Ins(i, acc) ==
            LET p == Cardinality({k \in 1..Len(acc) : <<i, acc[k]>> \notin B})
            IN SubSeq(acc, 1, p) \o <<i>> \o SubSeq(acc, p + 1, Len(acc))
        R[k \in 0..Len(s)] == IF k = 0 THEN <<>> ELSE Ins(k, R[k - 1])
        order == R[Len(s)]
    IN [k \in 1..Len(s) |-> s[order[k]]]

\* The distinct elements of s in the order of their first occurrence: the
\* iteration order of a Map / Set / object filled in the order of s.
InsertionOrder(s) ==
    Pick(s, {k \in 1..Len(s) : \A j \in 1..(k - 1) : s[j] # s[k]})

RECURSIVE Concat(_)
Concat(ss) == IF ss = <<>> THEN <<>> ELSE Head(ss) \o Concat(Tail(ss))

---------------------------------------------------------------------------
(* The time-series model: HabitData and its entries.                       *)

NoHour == -1

\* The hour `new Date(entry.date).getHours()` yields for an entry without
\* completedAt: the entries route stores dates at the start of the day.
DateHour == 0

dayNames == <<"Sunday", "Monday", "Tuesday", "Wednesday", "Thursday", "Friday",
              "Saturday">>

\* new Date(entry.date).getDay()
GetDay(e) == e.date % 7

\* entry.date.split('T')[0]: the calendar day of the entry
DateKey(e) == e.date

\* new Date(b.date).getTime() - new Date(a.date).getTime() < 0 ... : the
\* comparators `(a, b) => time(b) - time(a)` and `(a, b) => time(a) - time(b)`
SortNewerFirst(es) ==
    SortBy(es, {p \in Positions(es) : es[p[1]].date > es[p[2]].date})
SortOlderFirst(es) ==
    SortBy(es, {p \in Positions(es) : es[p[1]].date < es[p[2]].date})

\* entries.filter(e => e.completed) and entries.filter(e => !e.completed)
Completed(es) == Pick(es, {i \in 1..Len(es) : es[i].completed})
Missed(es) == Pick(es, {i \in 1..Len(es) : ~es[i].completed})

\* habit.category || 'General'
CategoryOf(h) == IF h.category = "" THEN "General" ELSE h.category

Entries(hs) == Concat([i \in 1..Len(hs) |-> hs[i].entries])

---------------------------------------------------------------------------
(* The recommendation-usage store.                                         *)

RECURSIVE JoinInts(_)
JoinInts(s) ==
    IF s = <<>> THEN ""
    ELSE IF Len(s) = 1 THEN ToString(s[1])
    ELSE ToString(s[1]) \o "," \o JoinInts(Tail(s))

\* The decimal digits JSON.stringify prints for n/d, at most k of them after
\* the point.
RECURSIVE Digits(_, _, _)
Digits(r, d, k) ==
    IF r = 0 \/ k = 0 THEN ""
    ELSE ToString((10 * r) \div d) \o Digits((10 * r) % d, d, k - 1)

Decimal(q, k) ==
    LET whole == q[1] \div q[2]
        rest == q[1] % q[2]
    IN ToString(whole) \o (IF rest = 0 \/ k = 0 THEN "" ELSE "." \o Digits(rest, q[2], k))

HasField(data, f) == f \in DOMAIN data

\* JSON.stringify(data).slice(0, 50) for the payloads that reach the default
\* branch.  Habit ids are 25-character cuids, so the 50 characters end inside
\* the second field: after one character of avgMood, or inside the name of
\* difficultyChange.  For a time payload they end 12 to 16 characters into
\* successRate, depending on the length of bestTime.
JsonSlice50(data) ==
    IF HasField(data, "bestTime")
    THEN "{\"bestTime\":\"" \o data.bestTime \o "\",\"successRate\":"
         \o Decimal(data.successRate, 12)
    ELSE IF HasField(data, "avgMood")
    THEN "{\"habitId\":\"" \o ToString(data.habitId) \o "\",\"avgMood\":"
         \o ToString(data.avgMood[1] \div data.avgMood[2])
    ELSE "{\"habitId\":\"" \o ToString(data.habitId) \o "\",\"difficul"

generateRecommendationKey(type, data) ==
    CASE type = "timing_optimization" ->
           "timing_" \o (IF HasField(data, "optimalHours")
                         THEN JoinInts([i \in 1..Len(data.optimalHours) |->
                                           data.optimalHours[i].hour])
                         ELSE "undefined")
      [] type = "day_optimization" ->
           "day_" \o (IF HasField(data, "bestDay") THEN data.bestDay
                      ELSE IF HasField(data, "worstDay") THEN data.worstDay
                      ELSE "undefined")
      [] type = "habit_correlation" ->
           "correlation_" \o data.habit1 \o "_" \o data.habit2
      [] type = "habit_suggestion" ->
           "suggestion_" \o (IF HasField(data, "recommendedHabit")
                             THEN data.recommendedHabit.title ELSE "undefined")
      [] type = "habit_stacking" ->
           "stacking_" \o data.habit1 \o "_" \o data.habit2
      [] OTHER -> type \o "_" \o JsonSlice50(data)

isRecommendationUsed(used, recommendationType, data) ==
    generateRecommendationKey(recommendationType, data) \in used

---------------------------------------------------------------------------
(* 4.1 analyzeWeekdayPatterns                                              *)

WeekdayTotal(es, d) == Cardinality({i \in 1..Len(es) : GetDay(es[i]) = d})
WeekdayCompleted(es, d) ==
    Cardinality({i \in 1..Len(es) : GetDay(es[i]) = d /\ es[i].completed})

\* dayPerformances: Object.entries of weekdayStats (integer keys, ascending),
\* filtered to the days with at least 3 entries
dayPerformances(hs) ==
    LET es == Entries(hs)
        perf(d) == [day |-> d, dayName |-> dayNames[d + 1],
                    rate |-> Rat(WeekdayCompleted(es, d), WeekdayTotal(es, d)),
                    total |-> WeekdayTotal(es, d)]
        days == Pick(<<0, 1, 2, 3, 4, 5, 6>>,
                     {k \in 1..7 : WeekdayTotal(es, k - 1) >= 3})
    IN [k \in 1..Len(days) |-> perf(days[k])]

\* a reduction that lets a later day replace an equally good earlier one
RECURSIVE ReduceLatestBest(_, _, _)
ReduceLatestBest(s, k, max) ==
    IF k > Len(s) THEN max
    ELSE ReduceLatestBest(s, k + 1, IF RGe(s[k].rate, max.rate) THEN s[k] ELSE max)

\* reduce((max, current) => current.rate > max.rate ? current : max)
RECURSIVE ReduceBest(_, _, _)
ReduceBest(s, k, max) ==
    IF k > Len(s) THEN max
    ELSE ReduceBest(s, k + 1, IF RGt(s[k].rate, max.rate) THEN s[k] ELSE max)

\* reduce((min, current) => current.rate < min.rate ? current : min)
RECURSIVE ReduceWorst(_, _, _)
ReduceWorst(s, k, min) ==
    IF k > Len(s) THEN min
    ELSE ReduceWorst(s, k + 1, IF RLt(s[k].rate, min.rate) THEN s[k] ELSE min)

bestDayOf(perfs) == ReduceBest(perfs, 2, perfs[1])
worstDayOf(perfs) == ReduceWorst(perfs, 2, perfs[1])

ChampionInsight(bestDay) ==
    [type |-> "pattern", title |-> bestDay.dayName \o " Champion",
     confidence |-> <<9, 10>>, actionable |-> TRUE, showActionButton |-> TRUE,
     priority |-> "medium",
     data |-> [bestDay |-> bestDay.dayName, rate |-> bestDay.rate,
               recommendationType |-> "day_optimization"]]

NeedsAttentionInsight(worstDay) ==
    [type |-> "optimization", title |-> worstDay.dayName \o " Needs Attention",
     confidence |-> <<4, 5>>, actionable |-> TRUE, showActionButton |-> TRUE,
     priority |-> "high",
     data |-> [worstDay |-> worstDay.dayName, rate |-> worstDay.rate,
               recommendationType |-> "day_optimization"]]

PerformanceInsight(bestDay) ==
    [type |-> "pattern", title |-> bestDay.dayName \o " Performance",
     confidence |-> <<7, 10>>, actionable |-> FALSE, showActionButton |-> FALSE,
     priority |-> "low",
     data |-> [bestDay |-> bestDay.dayName, rate |-> bestDay.rate]]

analyzeWeekdayPatterns(hs, used) ==
    LET perfs == dayPerformances(hs) IN
    IF perfs = <<>> THEN <<>>
    ELSE
      LET bestDay == bestDayOf(perfs)
          worstDay == worstDayOf(perfs)
      IN (IF RGt(bestDay.rate, <<8, 10>>)
             /\ ~isRecommendationUsed(used, "day_optimization",
                                      [bestDay |-> bestDay.dayName])
          THEN <<ChampionInsight(bestDay)>> ELSE <<>>)
         \o
         (IF RLt(worstDay.rate, <<1, 2>>) /\ worstDay.total >= 5
             /\ ~isRecommendationUsed(used, "day_optimization",
                                      [worstDay |-> worstDay.dayName])
          THEN <<NeedsAttentionInsight(worstDay)>> ELSE <<>>)
         \o
         (IF RGt(bestDay.rate, <<6, 10>>) /\ RLe(bestDay.rate, <<8, 10>>)
          THEN <<PerformanceInsight(bestDay)>> ELSE <<>>)

---------------------------------------------------------------------------
(* 4.2 analyzeStreakVulnerability                                          *)

\* calculateVariance over a 0/1 sequence with c ones: mean = c/n, then the
\* mean of the squared differences
calculateVariance(data) ==
    LET n == Len(data)
        c == SumInts(data)
        sq == [i \in 1..n |-> (data[i] * n - c) * (data[i] * n - c)]
    IN Rat(SumInts(sq), n * n * n)

StreakInsight(h, rate) ==
    [type |-> "prediction", title |-> "\"" \o h.title \o "\" Streak at Risk",
     confidence |-> <<3, 4>>, actionable |-> TRUE, showActionButton |-> FALSE,
     priority |-> "high",
     data |-> [habitId |-> h.id, riskScore |-> RSub(<<1, 1>>, rate)]]

StreakOfHabit(h) ==
    LET recentEntries == SortNewerFirst(SliceLast(h.entries, 14)) IN
    IF Len(recentEntries) < 7 THEN <<>>
    ELSE
      LET completionPattern ==
              [i \in 1..Len(recentEntries) |->
                  IF recentEntries[i].completed THEN 1 ELSE 0]
          recentCompletionRate ==
              Rat(SumInts(completionPattern), Len(completionPattern))
          variance == calculateVariance(completionPattern)
      IN IF RGt(recentCompletionRate, <<7, 10>>) /\ RGt(variance, <<15, 100>>)
         THEN <<StreakInsight(h, recentCompletionRate)>>
         ELSE <<>>

analyzeStreakVulnerability(hs) ==
    Concat([i \in 1..Len(hs) |-> StreakOfHabit(hs[i])])

---------------------------------------------------------------------------
(* 4.3 findHabitCorrelations                                               *)

DatesOf(h) == {DateKey(h.entries[i]) : i \in 1..Len(h.entries)}

\* habit.entries.find(e => e.date.split('T')[0] === date)
FindEntry(h, date) ==
    h.entries[CHOOSE i \in 1..Len(h.entries) :
                 /\ DateKey(h.entries[i]) = date
                 /\ \A j \in 1..(i - 1) : DateKey(h.entries[j]) # date]

\* how often habit2 is done on the common days habit1 is done
conditionalCompletion(habit1, habit2) ==
    LET commonDates == DatesOf(habit1) \cap DatesOf(habit2)
        bothCompleted ==
            Cardinality({d \in commonDates :
                FindEntry(habit1, d).completed /\ FindEntry(habit2, d).completed})
        firstCompleted ==
            Cardinality({d \in commonDates : FindEntry(habit1, d).completed})
    IN IF Cardinality(commonDates) < 5 THEN <<0, 1>>
       ELSE IF firstCompleted > 0 THEN Rat(bothCompleted, firstCompleted)
       ELSE <<0, 1>>

calculateHabitCorrelation(habit1, habit2) ==
    LET commonDates == DatesOf(habit1) \cap DatesOf(habit2)
        bothCompleted ==
            Cardinality({d \in commonDates :
                FindEntry(habit1, d).completed /\ FindEntry(habit2, d).completed})
        eitherCompleted ==
            Cardinality({d \in commonDates :
                FindEntry(habit1, d).completed \/ FindEntry(habit2, d).completed})
    IN IF Cardinality(commonDates) < 5 THEN <<0, 1>>
       ELSE IF eitherCompleted > 0 THEN Rat(bothCompleted, eitherCompleted)
       ELSE <<0, 1>>

CorrelationInsight(habit1, habit2, correlation) ==
    [type |-> "pattern", title |-> "Strong Connection Found",
     confidence |-> correlation, actionable |-> TRUE, showActionButton |-> TRUE,
     priority |-> "medium",
     data |-> [habit1 |-> habit1.title, habit2 |-> habit2.title,
               correlation |-> correlation,
               recommendationType |-> "habit_correlation"]]

\* a pairing that reports a correlation of 0.6 already
CorrelationFromSixty(hs, used, i, j) ==
    LET correlation == calculateHabitCorrelation(hs[i], hs[j]) IN
    IF RGe(correlation, <<6, 10>>)
       /\ ~isRecommendationUsed(used, "habit_correlation",
                                [habit1 |-> hs[i].title, habit2 |-> hs[j].title])
    THEN <<CorrelationInsight(hs[i], hs[j], correlation)>>
    ELSE <<>>

CorrelationOfPair(hs, used, i, j) ==
    LET correlation == calculateHabitCorrelation(hs[i], hs[j]) IN
    IF RGt(correlation, <<6, 10>>)
       /\ ~isRecommendationUsed(used, "habit_correlation",
                                [habit1 |-> hs[i].title, habit2 |-> hs[j].title])
    THEN <<CorrelationInsight(hs[i], hs[j], correlation)>>
    ELSE <<>>

\* for i in 0..n-1, for j in i+1..n-1
IndexPairs(n) ==
    Concat([i \in 1..n |-> [k \in 1..(n - i) |-> <<i, i + k>>]])

findHabitCorrelations(hs, used) ==
    IF Len(hs) < 2 THEN <<>>
    ELSE LET pairs == IndexPairs(Len(hs)) IN
         Concat([p \in 1..Len(pairs) |->
                    CorrelationOfPair(hs, used, pairs[p][1], pairs[p][2])])

---------------------------------------------------------------------------
(* 4.5 analyzeOptimalTiming and analyzeEnergyPatterns                      *)

\* entry.completedAt ? new Date(entry.completedAt) : new Date(entry.date),
\* then getHours()
EntryHour(e) == IF e.hour # NoHour THEN e.hour ELSE DateHour

\* sort((a, b) => b.rate - a.rate)
SortHigherRateFirst(s) ==
    SortBy(s, {p \in Positions(s) : RGt(s[p[1]].rate, s[p[2]].rate)})

\* hourlyPerformance: Object.entries of hourlyStats (integer keys, ascending),
\* the hours with at least 3 entries, sorted by rate descending
hourlyPerformance(hs) ==
    LET es == Entries(hs)
        total(h) == Cardinality({i \in 1..Len(es) : EntryHour(es[i]) = h})
        completed(h) ==
            Cardinality({i \in 1..Len(es) : EntryHour(es[i]) = h /\ es[i].completed})
        perf(h) == [hour |-> h, rate |-> Rat(completed(h), total(h)),
                    total |-> total(h)]
        hours == Pick([h \in 1..24 |-> h - 1], {k \in 1..24 : total(k - 1) >= 3})
    IN SortHigherRateFirst([k \in 1..Len(hours) |-> perf(hours[k])])

\* timeOfDayPerformance: timeOfDayStats counts only the entries that carry a
\* timeOfDay and are completed, and counts each of them in both completed and
\* total; its keys iterate in the order they were first inserted
timeOfDayPerformance(hs) ==
    LET all == Entries(hs)
        es == Pick(all, {i \in 1..Len(all) :
                            all[i].timeOfDay # "" /\ all[i].completed})
        periods == InsertionOrder([i \in 1..Len(es) |-> es[i].timeOfDay])
        total(p) == Cardinality({i \in 1..Len(es) : es[i].timeOfDay = p})
        perf(p) == [period |-> p, rate |-> Rat(total(p), total(p)),
                    total |-> total(p)]
    IN SortHigherRateFirst(
           Pick([k \in 1..Len(periods) |-> perf(periods[k])],
                {k \in 1..Len(periods) : total(periods[k]) >= 3}))

\* period.charAt(0).toUpperCase() + period.slice(1)
Capitalize(period) ==
    CASE period = "morning" -> "Morning"
      [] period = "afternoon" -> "Afternoon"
      [] period = "evening" -> "Evening"
      [] period = "night" -> "Night"
      [] OTHER -> period

PeakHoursInsight(bestHours) ==
    [type |-> "optimization", title |-> "Your Peak Performance Hours",
     confidence |-> <<4, 5>>, actionable |-> FALSE, showActionButton |-> FALSE,
     priority |-> "medium",
     data |-> [optimalHours |-> bestHours,
               recommendationType |-> "timing_optimization"]]

BestTimeOfDayInsight(bestPeriod) ==
    [type |-> "pattern",
     title |-> "Best Time of Day: " \o Capitalize(bestPeriod.period),
     confidence |-> <<17, 20>>, actionable |-> FALSE, showActionButton |-> FALSE,
     priority |-> "medium",
     data |-> [bestPeriod |-> bestPeriod.period, rate |-> bestPeriod.rate]]

EnergyInsight(bestPeriod, worstPeriod) ==
    [type |-> "pattern", title |-> "Energy Level Pattern Detected",
     confidence |-> <<3, 4>>, actionable |-> FALSE, showActionButton |-> FALSE,
     priority |-> "medium",
     data |-> [bestPeriod |-> bestPeriod.name, worstPeriod |-> worstPeriod.name,
               difference |-> RSub(bestPeriod.avgRate, worstPeriod.avgRate)]]

analyzeEnergyPatterns(hourly) ==
    IF Len(hourly) < 4 THEN <<>>
    ELSE
      LET hoursIn(lo, hi) ==
              Pick(hourly, {i \in 1..Len(hourly) :
                               hourly[i].hour >= lo /\ hourly[i].hour < hi})
          named == <<[name |-> "morning", hours |-> hoursIn(6, 12)],
                     [name |-> "afternoon", hours |-> hoursIn(12, 17)],
                     [name |-> "evening", hours |-> hoursIn(17, 22)]>>
          periods == Pick(named, {k \in 1..3 : Len(named[k].hours) > 0})
          avg(p) == LET sum == SumRats([i \in 1..Len(p.hours) |-> p.hours[i].rate])
                    IN Rat(sum[1], sum[2] * Len(p.hours))
          withAvg == [k \in 1..Len(periods) |->
                         [name |-> periods[k].name, avgRate |-> avg(periods[k])]]
          periodPerformance ==
              SortBy(withAvg, {p \in Positions(withAvg) :
                                  RGt(withAvg[p[1]].avgRate, withAvg[p[2]].avgRate)})
      IN IF Len(periodPerformance) >= 2
         THEN LET bestPeriod == periodPerformance[1]
                  worstPeriod == periodPerformance[Len(periodPerformance)]
              IN IF RGt(RSub(bestPeriod.avgRate, worstPeriod.avgRate), <<2, 10>>)
                 THEN <<EnergyInsight(bestPeriod, worstPeriod)>>
                 ELSE <<>>
         ELSE <<>>

analyzeOptimalTiming(hs, used) ==
    LET hourly == hourlyPerformance(hs)
        bestHours == SliceFirst(hourly, 3)
        byPeriod == timeOfDayPerformance(hs)
    IN (IF Len(hourly) > 0
           /\ ~isRecommendationUsed(used, "timing_optimization",
                                    [optimalHours |-> bestHours])
        THEN <<PeakHoursInsight(bestHours)>> ELSE <<>>)
       \o (IF Len(byPeriod) > 0 THEN <<BestTimeOfDayInsight(byPeriod[1])>> ELSE <<>>)
       \o analyzeEnergyPatterns(hourly)

---------------------------------------------------------------------------
(* 4.6 generateSmartRecommendations: getComplementaryHabits                *)

\* h.title.toLowerCase().includes(word), over the titles of the model
Mentions(title, word) ==
    \/ word = "water" /\ title \in {"Drink water", "Drink 8 glasses of water"}
    \/ word = "meditation" /\ title \in {"Meditation", "10-minute morning meditation"}

HydrationHabit ==
    [title |-> "Drink 8 glasses of water", confidence |-> <<4, 5>>,
     category |-> "Health"]
MeditationHabit ==
    [title |-> "10-minute morning meditation", confidence |-> <<3, 4>>,
     category |-> "Wellness"]
ReadingHabit ==
    [title |-> "Read for 20 minutes", confidence |-> <<7, 10>>,
     category |-> "Learning"]

getComplementaryHabits(existingHabits) ==
    LET categories == {CategoryOf(existingHabits[i]) : i \in 1..Len(existingHabits)}
        some(word) == \E i \in 1..Len(existingHabits) :
                          Mentions(existingHabits[i].title, word)
        recommendations ==
            (IF "Health" \in categories /\ ~some("water")
             THEN <<HydrationHabit>> ELSE <<>>)
            \o (IF "Productivity" \in categories /\ ~some("meditation")
                THEN <<MeditationHabit>> ELSE <<>>)
            \o (IF Len(existingHabits) >= 3 /\ "Learning" \notin categories
                THEN <<ReadingHabit>> ELSE <<>>)
    IN SliceFirst(recommendations, 2)

SuggestionInsight(rec) ==
    [type |-> "recommendation", title |-> "Suggested: " \o rec.title,
     confidence |-> rec.confidence, actionable |-> TRUE, showActionButton |-> TRUE,
     priority |-> "medium",
     data |-> [recommendedHabit |-> rec, recommendationType |-> "habit_suggestion"]]

\* Suggestions that drop the used ones first and cap what is left.
SuggestionsFilteredFirst(hs, used) ==
    LET categories == {CategoryOf(hs[i]) : i \in 1..Len(hs)}
        some(word) == \E i \in 1..Len(hs) : Mentions(hs[i].title, word)
        fired ==
            (IF "Health" \in categories /\ ~some("water")
             THEN <<HydrationHabit>> ELSE <<>>)
            \o (IF "Productivity" \in categories /\ ~some("meditation")
                THEN <<MeditationHabit>> ELSE <<>>)
            \o (IF Len(hs) >= 3 /\ "Learning" \notin categories
                THEN <<ReadingHabit>> ELSE <<>>)
    IN LET unused == SliceFirst(Pick(fired,
                           {k \in 1..Len(fired) :
                               ~isRecommendationUsed(used, "habit_suggestion",
                                   [recommendedHabit |-> fired[k]])}), 2)
       IN [k \in 1..Len(unused) |-> SuggestionInsight(unused[k])]

SuggestionInsights(hs, used) ==
    LET recommendations == getComplementaryHabits(hs) IN
    LET unused == Pick(recommendations,
                       {k \in 1..Len(recommendations) :
                           ~isRecommendationUsed(used, "habit_suggestion",
                               [recommendedHabit |-> recommendations[k]])})
    IN [k \in 1..Len(unused) |-> SuggestionInsight(unused[k])]

---------------------------------------------------------------------------
(* 4.4 generateHabitStackingRecommendations                                *)

\* the (date, habit id) of every completed entry, in iteration order
CompletionLog(hs) ==
    Concat([i \in 1..Len(hs) |->
               LET done == Completed(hs[i].entries)
               IN [k \in 1..Len(done) |->
                      [date |-> DateKey(done[k]), id |-> hs[i].id]]])

\* Array.from(habitIds).sort(): the ids of one date in ascending order
RECURSIVE SortedIds(_)
SortedIds(S) ==
    IF S = {} THEN <<>>
    ELSE LET m == CHOOSE x \in S : \A y \in S : x <= y
         IN <<m>> \o SortedIds(S \ {m})

\* the pairs `${habitArray[i]}:${habitArray[j]}`, i < j, of one date
PairsOfDate(log, date) ==
    LET ids == SortedIds({log[k].id : k \in {k \in 1..Len(log) : log[k].date = date}})
        idx == IndexPairs(Len(ids))
    IN IF Len(ids) >= 2
       THEN [p \in 1..Len(idx) |-> <<ids[idx[p][1]], ids[idx[p][2]]>>]
       ELSE <<>>

\* habits.find(h => h.id === id)
FindHabit(hs, id) ==
    hs[CHOOSE i \in 1..Len(hs) :
           hs[i].id = id /\ \A j \in 1..(i - 1) : hs[j].id # id]

\* the insight with frequency / 10 as its confidence, however large
UncappedStackingInsight(habit1, habit2, frequency) ==
    [type |-> "pattern", title |-> "Habit Stacking Opportunity",
     confidence |-> Rat(frequency, 10),
     actionable |-> TRUE, showActionButton |-> TRUE, priority |-> "medium",
     data |-> [habit1 |-> habit1.title, habit2 |-> habit2.title,
               frequency |-> frequency, stackingType |-> "sequential",
               recommendationType |-> "habit_stacking"]]

StackingInsight(habit1, habit2, frequency) ==
    [type |-> "pattern", title |-> "Habit Stacking Opportunity",
     confidence |-> RMin(<<9, 10>>, Rat(frequency, 10)),
     actionable |-> TRUE, showActionButton |-> TRUE, priority |-> "medium",
     data |-> [habit1 |-> habit1.title, habit2 |-> habit2.title,
               frequency |-> frequency, stackingType |-> "sequential",
               recommendationType |-> "habit_stacking"]]

generateHabitStackingRecommendations(hs, used) ==
    LET log == CompletionLog(hs)
        dates == InsertionOrder([k \in 1..Len(log) |-> log[k].date])
        seen == Concat([d \in 1..Len(dates) |-> PairsOfDate(log, dates[d])])
        stackingOpportunities == InsertionOrder(seen)
        frequency(pair) == Cardinality({k \in 1..Len(seen) : seen[k] = pair})
        one(pair) ==
            LET habit1 == FindHabit(hs, pair[1])
                habit2 == FindHabit(hs, pair[2])
            IN IF frequency(pair) >= 5
                  /\ ~isRecommendationUsed(used, "habit_stacking",
                         [habit1 |-> habit1.title, habit2 |-> habit2.title])
               THEN <<StackingInsight(habit1, habit2, frequency(pair))>>
               ELSE <<>>
    IN Concat([k \in 1..Len(stackingOpportunities) |->
                  one(stackingOpportunities[k])])

---------------------------------------------------------------------------
(* 4.7 analyzeDifficultyAdjustments and 4.8 generateRecoveryStrategies     *)

SimplifyInsight(h, rate) ==
    [type |-> "optimization", title |-> "Simplify \"" \o h.title \o "\"",
     confidence |-> <<4, 5>>, actionable |-> TRUE, showActionButton |-> FALSE,
     priority |-> "high",
     data |-> [habitId |-> h.id, currentRate |-> rate, adjustment |-> "simplify"]]

LevelUpInsight(h, rate) ==
    [type |-> "optimization", title |-> "Level Up \"" \o h.title \o "\"",
     confidence |-> <<7, 10>>, actionable |-> TRUE, showActionButton |-> FALSE,
     priority |-> "medium",
     data |-> [habitId |-> h.id, currentRate |-> rate, adjustment |-> "challenge"]]

AdjustmentOfHabit(h) ==
    LET recentEntries == SliceLast(h.entries, 21) IN
    IF Len(recentEntries) < 14 THEN <<>>
    ELSE
      LET completionRate ==
              Rat(Len(Completed(recentEntries)), Len(recentEntries))
      IN IF RLt(completionRate, <<3, 10>>)
         THEN <<SimplifyInsight(h, completionRate)>>
         ELSE IF RGt(completionRate, <<9, 10>>) /\ Len(recentEntries) >= 21
         THEN <<LevelUpInsight(h, completionRate)>>
         ELSE <<>>

analyzeDifficultyAdjustments(hs) ==
    Concat([i \in 1..Len(hs) |-> AdjustmentOfHabit(hs[i])])

RecoveryInsight(h, missedDays, completedDays) ==
    [type |-> "optimization", title |-> "Recovery Plan for \"" \o h.title \o "\"",
     confidence |-> <<3, 4>>, actionable |-> TRUE, showActionButton |-> FALSE,
     priority |-> "medium",
     data |-> [habitId |-> h.id, missedDays |-> missedDays,
               completedDays |-> completedDays, strategy |-> "recovery"]]

RecoveryOfHabit(h) ==
    LET recentEntries == SortNewerFirst(SliceLast(h.entries, 7)) IN
    IF Len(recentEntries) < 5 THEN <<>>
    ELSE
      LET missedDays == Len(Missed(recentEntries))
          completedDays == Len(Completed(recentEntries))
      IN IF missedDays >= 2 /\ completedDays >= 2
         THEN <<RecoveryInsight(h, missedDays, completedDays)>>
         ELSE <<>>

generateRecoveryStrategies(hs) ==
    Concat([i \in 1..Len(hs) |-> RecoveryOfHabit(hs[i])])

generateSmartRecommendations(hs, used) ==
    SuggestionInsights(hs, used)
    \o generateHabitStackingRecommendations(hs, used)
    \o analyzeDifficultyAdjustments(hs)
    \o generateRecoveryStrategies(hs)

---------------------------------------------------------------------------
(* analyzeEnhancedPatterns, analyzeTimePatterns, 4.9 analyzeMoodCorrelations *)
(* and 4.10 analyzeDifficultyTrends                                        *)

OptimalTimeInsight(h, timeOfDay, avgHour) ==
    [type |-> "pattern", title |-> "Optimal Time Pattern for " \o h.title,
     confidence |-> <<4, 5>>, actionable |-> TRUE, showActionButton |-> FALSE,
     priority |-> "medium",
     data |-> [habitId |-> h.id, optimalTime |-> timeOfDay, avgHour |-> avgHour]]

EnhancedOfHabit(h) ==
    LET completedEntries == Completed(h.entries)
        timed == Pick(completedEntries,
                      {i \in 1..Len(completedEntries) :
                          completedEntries[i].hour # NoHour})
        completionTimes == [i \in 1..Len(timed) |-> timed[i].hour]
    IN IF Len(completedEntries) < 5 THEN <<>>
       ELSE IF Len(completionTimes) >= 3
       THEN LET avgHour == Rat(SumInts(completionTimes), Len(completionTimes))
                timeOfDay == IF RLt(avgHour, <<12, 1>>) THEN "morning"
                             ELSE IF RLt(avgHour, <<17, 1>>) THEN "afternoon"
                             ELSE "evening"
            IN <<OptimalTimeInsight(h, timeOfDay, avgHour)>>
       ELSE <<>>

analyzeEnhancedPatterns(hs) ==
    Concat([i \in 1..Len(hs) |-> EnhancedOfHabit(hs[i])])

PeakTimeInsight(bestTime, bestRate) ==
    [type |-> "optimization", title |-> "Peak Performance Time Identified",
     confidence |-> <<17, 20>>, actionable |-> TRUE, showActionButton |-> TRUE,
     priority |-> "high",
     data |-> [bestTime |-> bestTime, successRate |-> bestRate,
               recommendationType |-> "time_optimization"]]

\* Object.entries(timeSuccessRates).forEach: keeps the first bucket, in the
\* order morning, afternoon, evening, night, whose rate exceeds all before it
RECURSIVE BestTimeFrom(_, _, _, _)
BestTimeFrom(es, times, k, best) ==
    IF k > Len(times) THEN best
    ELSE
      LET total == Cardinality({i \in 1..Len(es) : es[i].timeOfDay = times[k]})
          completed == Cardinality({i \in 1..Len(es) :
                           es[i].timeOfDay = times[k] /\ es[i].completed})
      IN BestTimeFrom(es, times, k + 1,
             IF total >= 5 /\ RGt(Rat(completed, total), best.bestRate)
             THEN [bestTime |-> times[k], bestRate |-> Rat(completed, total)]
             ELSE best)

analyzeTimePatterns(hs) ==
    LET best == BestTimeFrom(Entries(hs),
                             <<"morning", "afternoon", "evening", "night">>, 1,
                             [bestTime |-> "morning", bestRate |-> <<0, 1>>])
    IN IF RGt(best.bestRate, <<8, 10>>)
       THEN <<PeakTimeInsight(best.bestTime, best.bestRate)>>
       ELSE <<>>

MoodBoostInsight(h, avgMood) ==
    [type |-> "recommendation", title |-> h.title \o " Boosts Your Mood",
     confidence |-> <<9, 10>>, actionable |-> FALSE, showActionButton |-> FALSE,
     priority |-> "medium",
     data |-> [habitId |-> h.id, avgMood |-> avgMood]]

MoodAdjustInsight(h, avgMood) ==
    [type |-> "optimization", title |-> h.title \o " May Need Adjustment",
     confidence |-> <<4, 5>>, actionable |-> TRUE, showActionButton |-> TRUE,
     priority |-> "high",
     data |-> [habitId |-> h.id, avgMood |-> avgMood,
               recommendationType |-> "habit_adjustment"]]

MoodOfHabit(h) ==
    LET entriesWithMood ==
            Pick(h.entries, {i \in 1..Len(h.entries) :
                                h.entries[i].completed /\ h.entries[i].mood # 0})
    IN
    IF Len(entriesWithMood) < 5 THEN <<>>
    ELSE
      LET avgMood ==
              Rat(SumInts([i \in 1..Len(entriesWithMood) |-> entriesWithMood[i].mood]),
                  Len(entriesWithMood))
      IN IF RGe(avgMood, <<8, 1>>) THEN <<MoodBoostInsight(h, avgMood)>>
         ELSE IF RLe(avgMood, <<4, 1>>) THEN <<MoodAdjustInsight(h, avgMood)>>
         ELSE <<>>

analyzeMoodCorrelations(hs) ==
    Concat([i \in 1..Len(hs) |-> MoodOfHabit(hs[i])])

TrendData(h, change, recentAvg, earlierAvg, recType) ==
    [habitId |-> h.id, difficultyChange |-> change, recentAvg |-> recentAvg,
     earlierAvg |-> earlierAvg, recommendationType |-> recType]

GettingEasierInsight(h, change, recentAvg, earlierAvg) ==
    [type |-> "recommendation", title |-> h.title \o " is Getting Easier",
     confidence |-> <<17, 20>>, actionable |-> TRUE, showActionButton |-> TRUE,
     priority |-> "medium",
     data |-> TrendData(h, change, recentAvg, earlierAvg, "increase_challenge")]

MoreChallengingInsight(h, change, recentAvg, earlierAvg) ==
    [type |-> "optimization", title |-> h.title \o " Becoming More Challenging",
     confidence |-> <<4, 5>>, actionable |-> TRUE, showActionButton |-> TRUE,
     priority |-> "high",
     data |-> TrendData(h, change, recentAvg, earlierAvg, "simplify_habit")]

TrendOfHabit(h) ==
    LET entriesWithDifficulty ==
            SortOlderFirst(
                Pick(h.entries, {i \in 1..Len(h.entries) :
                        h.entries[i].completed /\ h.entries[i].difficulty # 0}))
    IN IF Len(entriesWithDifficulty) < 7 THEN <<>>
       ELSE
         LET recentEntries == SliceLast(entriesWithDifficulty, 5)
             earlierEntries == SliceFirst(entriesWithDifficulty, 5)
             avg(es) == Rat(SumInts([i \in 1..Len(es) |-> es[i].difficulty]), Len(es))
             recentAvg == avg(recentEntries)
             earlierAvg == avg(earlierEntries)
             difficultyChange == RSub(recentAvg, earlierAvg)
         IN IF RLe(difficultyChange, <<-2, 1>>)
            THEN <<GettingEasierInsight(h, difficultyChange, recentAvg, earlierAvg)>>
            ELSE IF RGe(difficultyChange, <<2, 1>>)
            THEN <<MoreChallengingInsight(h, difficultyChange, recentAvg, earlierAvg)>>
            ELSE <<>>

analyzeDifficultyTrends(hs) ==
    Concat([i \in 1..Len(hs) |-> TrendOfHabit(hs[i])])

---------------------------------------------------------------------------
(* 4.11 analyzeHabits                                                      *)

\* the insight returned for an empty habit list; it carries no data and no
\* showActionButton
\* an onboarding insight the engine is only half sure of
HesitantOnboardingInsight ==
    [type |-> "recommendation", title |-> "Start Your Journey",
     confidence |-> <<1, 2>>, actionable |-> TRUE, showActionButton |-> FALSE,
     priority |-> "high", data |-> <<>>]

OnboardingInsight ==
    [type |-> "recommendation", title |-> "Start Your Journey",
     confidence |-> <<1, 1>>, actionable |-> TRUE, showActionButton |-> FALSE,
     priority |-> "high", data |-> <<>>]

priorityOrder(p) ==
    CASE p = "high" -> 3 [] p = "medium" -> 2 [] p = "low" -> 1

\* a comparator that looks at the priority only
CompareByPriority(a, b) == priorityOrder(b.priority) - priorityOrder(a.priority)

\* the comparator of analyzeHabits' sort: negative, zero or positive
CompareInsights(a, b) ==
    LET priorityDiff == priorityOrder(b.priority) - priorityOrder(a.priority) IN
    IF priorityDiff # 0 THEN priorityDiff
    ELSE IF RLt(b.confidence, a.confidence) THEN -1
    ELSE IF RGt(b.confidence, a.confidence) THEN 1
    ELSE 0

MaxInsights == 8

\* the array analyzeHabits builds from the nine analyzers
CollectInsights(hs, used) ==
    analyzeWeekdayPatterns(hs, used)
    \o analyzeStreakVulnerability(hs)
    \o findHabitCorrelations(hs, used)
    \o analyzeOptimalTiming(hs, used)
    \o generateSmartRecommendations(hs, used)
    \o analyzeEnhancedPatterns(hs)
    \o analyzeTimePatterns(hs)
    \o analyzeMoodCorrelations(hs)
    \o analyzeDifficultyTrends(hs)

SortInsights(all) ==
    SortBy(all, {p \in Positions(all) : CompareInsights(all[p[1]], all[p[2]]) < 0})

\* the sorted array returned whole
KeepAllInsights(all) == SortInsights(all)

\* .slice(0, 8)
RankInsights(all) == SliceFirst(SortInsights(all), MaxInsights)

analyzeHabits(hs, used) ==
    IF Len(hs) = 0 THEN <<OnboardingInsight>>
    ELSE RankInsights(CollectInsights(hs, used))

---------------------------------------------------------------------------
(* predictTomorrowSuccess                                                  *)

Min(a, b) == IF a < b THEN a ELSE b

\* a guard that lets a two-entry history through
InsufficientBelowTwo(recentEntries) == Len(recentEntries) < 2

\* if (recentEntries.length < 3)
InsufficientData(recentEntries) == Len(recentEntries) < 3

\* the weighted sum returned as it is
UnclampedProbability(probability) == probability

\* Math.max(0.1, Math.min(0.9, probability))
ClampProbability(probability) == RMax(<<1, 10>>, RMin(<<9, 10>>, probability))

TomorrowFactors(recentCompletionRate, dayOfWeekRate) ==
    (IF RGt(recentCompletionRate, <<8, 10>>)
     THEN <<"Strong recent performance">> ELSE <<>>)
    \o (IF RLt(recentCompletionRate, <<4, 10>>) THEN <<"Recent struggles">> ELSE <<>>)
    \o (IF RGt(dayOfWeekRate, <<7, 10>>)
        THEN <<"Good day-of-week track record">> ELSE <<>>)
    \o (IF RLt(dayOfWeekRate, <<4, 10>>)
        THEN <<"Challenging day of week historically">> ELSE <<>>)

TomorrowRecommendation(probability) ==
    IF RLt(probability, <<4, 10>>)
    THEN "Consider setting a reminder or simplifying this habit for tomorrow."
    ELSE IF RGt(probability, <<8, 10>>)
    THEN "You're on track for success! Keep up the great work."
    ELSE "Focus extra attention on this habit tomorrow to maintain momentum."

\* tomorrowDayOfWeek is what the clock gives: new Date() + 1 day, getDay()
predictTomorrowSuccess(habit, tomorrowDayOfWeek) ==
    LET recentEntries == SortNewerFirst(SliceLast(habit.entries, 14)) IN
    IF InsufficientData(recentEntries)
    THEN [probability |-> <<1, 2>>,
          factors |-> <<"Insufficient data">>,
          recommendation |-> "Keep tracking to get better predictions!"]
    ELSE LET recentCompletionRate ==
                 Rat(Len(Completed(SliceFirst(recentEntries, 7))),
                     Min(7, Len(recentEntries)))
             dayOfWeekEntries ==
                 Pick(habit.entries,
                      {k \in 1..Len(habit.entries) :
                          GetDay(habit.entries[k]) = tomorrowDayOfWeek})
             dayOfWeekRate ==
                 IF Len(dayOfWeekEntries) >= 3
                 THEN Rat(Len(Completed(dayOfWeekEntries)), Len(dayOfWeekEntries))
                 ELSE <<1, 2>>
             probability ==
                 RAdd(RMul(recentCompletionRate, <<7, 10>>),
                      RMul(dayOfWeekRate, <<3, 10>>))
         IN [probability |-> ClampProbability(probability),
             factors |-> TomorrowFactors(recentCompletionRate, dayOfWeekRate),
             recommendation |-> TomorrowRecommendation(probability)]

---------------------------------------------------------------------------
(* predictHabitDifficulty                                                  *)

\* the completed entries, rated or not
CompletedOnly(es) == Completed(es)

\* entries.filter(e => e.completed && e.difficulty)
Rated(es) == Pick(es, {k \in 1..Len(es) : es[k].completed /\ es[k].difficulty # 0})

\* reduce((sum, e) => sum + (e.difficulty || 5), 0) / length
AvgDifficulty(es) ==
    Rat(SumInts([k \in 1..Len(es) |->
                    IF es[k].difficulty # 0 THEN es[k].difficulty ELSE 5]),
        Len(es))

\* the adjusted average returned as it is
UnclampedDifficulty(x) == x

\* Math.max(1, Math.min(10, x))
ClampDifficulty(x) == RMax(<<1, 1>>, RMin(<<10, 1>>, x))

\* Math.round(x * 10) / 10, Math.round rounding halves up
RoundToTenth(x) == Rat((20 * x[1] + x[2]) \div (2 * x[2]), 10)

DifficultyFactors(dayAdjustment, timeAdjustment) ==
    (IF RGt(dayAdjustment, <<1, 1>>)
     THEN <<"This day of week tends to be more challenging">>
     ELSE IF RLt(dayAdjustment, <<-1, 1>>)
     THEN <<"This day of week is typically easier">> ELSE <<>>)
    \o (IF RGt(timeAdjustment, <<1, 1>>)
        THEN <<"This time of day shows higher difficulty">>
        ELSE IF RLt(timeAdjustment, <<-1, 1>>)
        THEN <<"This time of day is optimal for this habit">> ELSE <<>>)

DifficultyRecommendations(dayAdjustment, timeAdjustment, predictedDifficulty) ==
    (IF RGt(dayAdjustment, <<1, 1>>)
     THEN <<"Consider preparing extra motivation for this day">>
     ELSE IF RLt(dayAdjustment, <<-1, 1>>)
     THEN <<"Good day to tackle this habit">> ELSE <<>>)
    \o (IF RGt(timeAdjustment, <<1, 1>>)
        THEN <<"Consider scheduling this habit at a different time">> ELSE <<>>)
    \o (IF RGt(predictedDifficulty, <<7, 1>>)
        THEN <<"Consider breaking this habit into smaller steps today">>
        ELSE IF RLt(predictedDifficulty, <<4, 1>>)
        THEN <<"Great day to push yourself a bit harder">> ELSE <<>>)

\* two entries near the target hour suffice, however few carry a completedAt
TwoSimilarSuffice(timeEntries, similarTimeEntries) ==
    Len(similarTimeEntries) >= 2

\* if (timeEntries.length >= 3) { ... if (similarTimeEntries.length >= 2)
EnoughTimeData(timeEntries, similarTimeEntries) ==
    Len(timeEntries) >= 3 /\ Len(similarTimeEntries) >= 2

\* dayOfWeek and hour are targetDate.getDay() and targetDate.getHours().  The
\* record carries the method's two local adjustments next to what it returns.
predictHabitDifficulty(habit, dayOfWeek, hour) ==
    LET recentEntries == SortNewerFirst(SliceLast(Rated(habit.entries), 30)) IN
    IF Len(recentEntries) < 5
    THEN [predictedDifficulty |-> <<5, 1>>,
          factors |-> <<"Insufficient difficulty data">>,
          recommendations |->
              <<"Start tracking difficulty ratings for better predictions">>,
          confidence |-> <<3, 10>>,
          dayAdjustment |-> <<0, 1>>, timeAdjustment |-> <<0, 1>>]
    ELSE LET avgDifficulty == AvgDifficulty(recentEntries)
             rated == Rated(habit.entries)
             dayOfWeekEntries ==
                 Pick(rated, {k \in 1..Len(rated) : GetDay(rated[k]) = dayOfWeek})
             dayAdjustment ==
                 IF Len(dayOfWeekEntries) >= 3
                 THEN RSub(AvgDifficulty(dayOfWeekEntries), avgDifficulty)
                 ELSE <<0, 1>>
             timeEntries ==
                 Pick(recentEntries,
                      {k \in 1..Len(recentEntries) : recentEntries[k].hour # NoHour})
             similarTimeEntries ==
                 Pick(timeEntries,
                      {k \in 1..Len(timeEntries) :
                          Abs(timeEntries[k].hour - hour) <= 2})
             timeAdjustment ==
                 IF EnoughTimeData(timeEntries, similarTimeEntries)
                 THEN RSub(AvgDifficulty(similarTimeEntries), avgDifficulty)
                 ELSE <<0, 1>>
             predictedDifficulty ==
                 ClampDifficulty(RAdd(RAdd(avgDifficulty, dayAdjustment),
                                      timeAdjustment))
         IN [predictedDifficulty |-> RoundToTenth(predictedDifficulty),
             factors |-> DifficultyFactors(dayAdjustment, timeAdjustment),
             recommendations |->
                 DifficultyRecommendations(dayAdjustment, timeAdjustment,
                                           predictedDifficulty),
             confidence |-> RMin(<<9, 10>>, Rat(Len(recentEntries), 20)),
             dayAdjustment |-> dayAdjustment, timeAdjustment |-> timeAdjustment]

---------------------------------------------------------------------------
(* predictWeekSuccess                                                      *)

predictWeekSuccess(habit) ==
    LET recentEntries == SortNewerFirst(SliceLast(habit.entries, 30))
        es == habit.entries
        dayEntries(d) == Pick(es, {k \in 1..Len(es) : GetDay(es[k]) = d})
        dailyProbabilities ==
            [k \in 1..7 |->
                [day |-> dayNames[k],
                 rate |-> IF Len(dayEntries(k - 1)) >= 2
                          THEN Rat(Len(Completed(dayEntries(k - 1))),
                                   Len(dayEntries(k - 1)))
                          ELSE <<1, 2>>]]
        weeklyProbability ==
            RMul(SumRats([k \in 1..7 |-> dailyProbabilities[k].rate]), <<1, 7>>)
    IN IF Len(recentEntries) < 7
       THEN [dailyProbabilities |-> <<>>,
             weeklyProbability |-> <<1, 2>>,
             riskFactors |-> <<"Insufficient historical data">>,
             successFactors |-> <<>>,
             recommendations |-> <<"Continue tracking to get better predictions">>]
       ELSE IF RLt(weeklyProbability, <<1, 2>>)
       THEN [dailyProbabilities |-> dailyProbabilities,
             weeklyProbability |-> weeklyProbability,
             riskFactors |-> <<"Low weekly completion rate">>,
             successFactors |-> <<>>,
             recommendations |->
                 <<"Consider increasing the frequency or intensity of your habits">>]
       ELSE [dailyProbabilities |-> dailyProbabilities,
             weeklyProbability |-> weeklyProbability,
             riskFactors |-> <<>>,
             successFactors |-> <<"High weekly completion rate">>,
             recommendations |-> <<"Keep up the great work!">>]

---------------------------------------------------------------------------
(* generatePersonalizedCoaching                                            *)

\* today is the calendar day of Date.now().  An entry dated at the start of
\* day d is later than Date.now() - 7 days exactly when d >= today - 6.
generatePersonalizedCoaching(hs, today) ==
    LET all == Entries(hs)
        recentEntries == Pick(all, {k \in 1..Len(all) : all[k].date >= today - 6})
        completionRate ==
            IF Len(recentEntries) > 0
            THEN Rat(Len(Completed(recentEntries)), Len(recentEntries))
            ELSE <<0, 1>>
        withMood == Pick(recentEntries,
                         {k \in 1..Len(recentEntries) :
                             recentEntries[k].completed /\ recentEntries[k].mood # 0})
        avgMood == IF Len(withMood) = 0 THEN <<5, 1>>
                   ELSE Rat(SumInts([k \in 1..Len(withMood) |-> withMood[k].mood]),
                            Len(withMood))
        rated == Rated(recentEntries)
        avgDifficulty == IF Len(rated) = 0 THEN <<5, 1>> ELSE AvgDifficulty(rated)
        tier == IF RGt(completionRate, <<8, 10>>) THEN 1
                ELSE IF RGt(completionRate, <<6, 10>>) THEN 2
                ELSE IF RGt(completionRate, <<4, 10>>) THEN 3 ELSE 4
        plan == IF RLt(completionRate, <<5, 10>>)
                THEN <<"Choose your easiest habit and commit to it for 3 days straight",
                       "Set reminders for your most important habit",
                       "Prepare your environment the night before">>
                ELSE IF RLt(completionRate, <<8, 10>>)
                THEN <<"Link your newest habit to an existing routine",
                       "Focus on your top 3 priority habits this week",
                       "Experiment with different times of day">>
                ELSE <<"Consider adding a challenging new habit",
                       "Mentor someone else in habit building",
                       "Optimize your routine for maximum efficiency">>
        goals == IF RLt(completionRate, <<5, 10>>)
                 THEN <<"Complete at least 3 habits this week",
                        "Track your mood after each completion">>
                 ELSE IF RLt(completionRate, <<8, 10>>)
                 THEN <<"Achieve 70% completion rate across all habits",
                        "Try habit stacking with your strongest habit">>
                 ELSE <<"Maintain your excellent streak",
                        "Help optimize your habit timing based on energy">>
    IN [motivationalMessage |->
            <<"You're absolutely crushing it! Your consistency is inspiring.",
              "Solid progress! You're building strong foundations.",
              "You're learning and growing. Progress isn't always linear.",
              "Every expert was once a beginner. Today is a fresh start.">>[tier],
        focusArea |->
            <<"Habit Optimization", "Consistency Building", "Momentum Recovery",
              "Foundation Building">>[tier],
        encouragement |->
            <<"You've built incredible momentum - keep riding this wave!",
              "Every habit you complete is an investment in your future self.",
              "Small steps still move you forward. You've got this!",
              "Focus on one habit at a time. Small wins build big victories.">>[tier],
        actionPlan |->
            (IF RLt(avgMood, <<6, 1>>)
             THEN <<"Focus on habits that boost your mood first">> ELSE <<>>)
            \o plan
            \o (IF RGt(avgDifficulty, <<7, 1>>)
                THEN <<"Consider breaking down difficult habits into smaller steps">>
                ELSE <<>>),
        weeklyGoals |->
            goals
            \o (IF RLt(avgMood, <<6, 1>>)
                THEN <<"Aim for an average mood of 7+ after habit completion">>
                ELSE <<>>)
            \o (IF RGt(avgDifficulty, <<7, 1>>)
                THEN <<"Reduce average difficulty to 6 or below">> ELSE <<>>)]

---------------------------------------------------------------------------
(* generatePerformanceForecast                                             *)

\* Math.round(x), halves rounded up
Round(x) == (2 * x[1] + x[2]) \div (2 * x[2])

\* a forecast that adds nothing for a habit it knows too little of
NoDefaultCompletion == <<0, 1>>

\* what a habit with fewer than two entries on the weekday adds to the day
DefaultCompletion == <<6, 10>>

\* one day of the forecast: date is the calendar day of today + i
ForecastDay(hs, date) ==
    LET dayOfWeek == date % 7
        dayEntries(h) ==
            Pick(h.entries, {k \in 1..Len(h.entries) : GetDay(h.entries[k]) = dayOfWeek})
        known(h) == Len(dayEntries(h)) >= 2
        dayCompletionRate(h) ==
            Rat(Len(Completed(dayEntries(h))), Len(dayEntries(h)))
        dayMoodEntries(h) ==
            LET es == dayEntries(h)
            IN Pick(es, {k \in 1..Len(es) : es[k].completed /\ es[k].mood # 0})
        dayAvgMood(h) ==
            LET es == dayMoodEntries(h)
            IN Rat(SumInts([k \in 1..Len(es) |-> es[k].mood]), Len(es))
        predictedCompletions ==
            SumRats([i \in 1..Len(hs) |->
                        IF known(hs[i]) THEN dayCompletionRate(hs[i])
                        ELSE DefaultCompletion])
        moods == {dayAvgMood(hs[i]) :
                     i \in {j \in 1..Len(hs) :
                               known(hs[j]) /\ Len(dayMoodEntries(hs[j])) > 0}}
        predictedMood ==
            IF \E m \in moods : RGt(m, <<5, 1>>)
            THEN CHOOSE m \in moods : \A o \in moods : RGe(m, o)
            ELSE <<5, 1>>
        weekend == dayOfWeek = 0 \/ dayOfWeek = 6
        disrupted == RLt(predictedCompletions, Rat(Len(hs), 2))
    IN [date |-> date,
        predictedCompletions |-> Round(predictedCompletions),
        predictedMood |-> RoundToTenth(predictedMood),
        riskFactors |->
            Concat([i \in 1..Len(hs) |->
                       IF known(hs[i]) /\ RLt(dayCompletionRate(hs[i]), <<1, 2>>)
                       THEN <<hs[i].title \o " typically struggles on this day">>
                       ELSE <<>>])
            \o (IF weekend /\ disrupted
                THEN <<"Weekend schedule disruption">> ELSE <<>>),
        opportunities |->
            Concat([i \in 1..Len(hs) |->
                       IF known(hs[i]) /\ RGt(dayCompletionRate(hs[i]), <<8, 10>>)
                       THEN <<hs[i].title \o " performs excellently on this day">>
                       ELSE <<>>])
            \o (IF weekend /\ ~disrupted
                THEN <<"Good weekend structure">> ELSE <<>>)]

\* today is the calendar day of new Date().  The two summary strings are kept
\* as their prefix and the list of dates they join.
generatePerformanceForecast(hs, days, today) ==
    LET forecast == [i \in 1..days |-> ForecastDay(hs, today + i - 1)]
        low == Pick(forecast,
                    {i \in 1..days :
                        10 * forecast[i].predictedCompletions < 4 * Len(hs)})
        high == Pick(forecast,
                     {i \in 1..days :
                         10 * forecast[i].predictedCompletions > 8 * Len(hs)})
    IN [forecast |-> forecast,
        summary |->
            [totalPredictedCompletions |->
                 SumInts([i \in 1..days |-> forecast[i].predictedCompletions]),
             streakRisk |->
                 IF Len(low) > 0
                 THEN <<[text |-> "Risk of streak breaks on",
                         dates |-> [i \in 1..Len(low) |-> low[i].date]]>>
                 ELSE <<>>,
             improvementOpportunities |->
                 IF Len(high) > 0
                 THEN <<[text |-> "Leverage high-energy days",
                         dates |-> [i \in 1..Len(high) |-> high[i].date]]>>
                 ELSE <<>>]]

---------------------------------------------------------------------------
(* generateOptimalSchedule                                                 *)

\* habitTimingData of one habit: its three best hours among the hours with at
\* least two timed entries (hourlyStats iterates in ascending hour order),
\* and the mean difficulty of its completed rated entries
\* hourlyStats[h] of the entries `at` that were completed at hour h, as the map
\* at the end of the chain turns it into a best time
hourlyStat(h, at) ==
    LET done == Completed(at)
    IN [hour |-> h,
        successRate |-> Rat(Len(done), Len(at)),
        avgDifficulty |-> IF Len(done) = 0 THEN <<5, 1>> ELSE AvgDifficulty(done)]

\* .sort((a, b) => b.successRate - a.successRate), then bestTimes.slice(0, 3)
bestTimesOf(stats) ==
    SliceFirst(SortBy(stats,
                      {p \in Positions(stats) :
                          RGt(stats[p[1]].successRate, stats[p[2]].successRate)}), 3)

habitTiming(habit) ==
    LET es == Pick(habit.entries,
                   {k \in 1..Len(habit.entries) : habit.entries[k].hour # NoHour})
        hours == Pick([h \in 1..24 |-> h - 1],
                      {k \in 1..24 :
                          Cardinality({j \in 1..Len(es) : es[j].hour = k - 1}) >= 2})
        rated == Rated(habit.entries)
    IN [habit |-> habit,
        bestTimes |->
            bestTimesOf([k \in 1..Len(hours) |->
                            hourlyStat(hours[k],
                                       Pick(es, {j \in 1..Len(es) :
                                                    es[j].hour = hours[k]}))]),
        avgDifficulty |-> IF Len(rated) = 0 THEN <<5, 1>> ELSE AvgDifficulty(rated)]

\* The rows one pass pushes for the habits it was given, the hours lo..hi - 1
\* being the pass's window: row k is timed index k - 1 hours after the
\* habit's first best hour in the window.
schedulePass(timings, lo, hi, defaultHour, defaultSuccess, morning) ==
    [k \in 1..Len(timings) |->
        LET bt == timings[k].bestTimes
            optimalTime ==
                bt[CHOOSE i \in 1..Len(bt) :
                      /\ bt[i].hour >= lo /\ bt[i].hour < hi
                      /\ \A j \in 1..(i - 1) : ~(bt[j].hour >= lo /\ bt[j].hour < hi)]
            success == IF optimalTime.successRate[1] = 0 THEN defaultSuccess
                       ELSE optimalTime.successRate
            slot == (IF optimalTime.hour = 0 THEN defaultHour ELSE optimalTime.hour)
                    + (k - 1)
        IN [slot |-> slot,
            time |-> ToString(slot) \o ":00",
            habitId |-> timings[k].habit.id,
            habitTitle |-> timings[k].habit.title,
            predictedDifficulty |-> optimalTime.avgDifficulty,
            predictedSuccess |-> success,
            reason |-> IF morning
                       THEN "Your " \o ToString(Round(RMul(success, <<100, 1>>)))
                            \o "% success rate at this time"
                       ELSE "Consistent performance at this time"]]

\* A scheduler whose evening pass takes every habit with an evening hour,
\* the ones of the morning pass included.
scheduleEveryCandidate(habitTimingData) ==
    LET inWindow(t, lo, hi) ==
            \E i \in 1..Len(t.bestTimes) :
                t.bestTimes[i].hour >= lo /\ t.bestTimes[i].hour < hi
        morningAll == Pick(habitTimingData,
                           {i \in 1..Len(habitTimingData) :
                               inWindow(habitTimingData[i], 6, 12)})
        morningHabits ==
            SortBy(morningAll,
                   {p \in Positions(morningAll) :
                       RLt(morningAll[p[1]].avgDifficulty, morningAll[p[2]].avgDifficulty)})
        eveningAll == Pick(habitTimingData,
                           {i \in 1..Len(habitTimingData) :
                               inWindow(habitTimingData[i], 17, 21)})
        eveningHabits ==
            SortBy(eveningAll,
                   {p \in Positions(eveningAll) :
                       RGt(eveningAll[p[1]].avgDifficulty, eveningAll[p[2]].avgDifficulty)})
    IN schedulePass(SliceFirst(morningHabits, 3), 6, 12, 8, <<7, 10>>, TRUE)
       \o schedulePass(SliceFirst(eveningHabits, 2), 17, 21, 19, <<6, 10>>, FALSE)

\* The rows carry, besides the fields of the schedule, the hour of their time
\* (slot), which is what parseInt(s.time.split(':')[0]) reads back.
scheduleOf(habitTimingData) ==
    LET inWindow(t, lo, hi) ==
            \E i \in 1..Len(t.bestTimes) :
                t.bestTimes[i].hour >= lo /\ t.bestTimes[i].hour < hi
        morningIdx == {i \in 1..Len(habitTimingData) :
                          inWindow(habitTimingData[i], 6, 12)}
        morningAll == Pick(habitTimingData, morningIdx)
        morningHabits ==
            SortBy(morningAll,
                   {p \in Positions(morningAll) :
                       RLt(morningAll[p[1]].avgDifficulty, morningAll[p[2]].avgDifficulty)})
        eveningAll ==
            Pick(habitTimingData,
                 {i \in 1..Len(habitTimingData) :
                     inWindow(habitTimingData[i], 17, 21) /\ i \notin morningIdx})
        eveningHabits ==
            SortBy(eveningAll,
                   {p \in Positions(eveningAll) :
                       RGt(eveningAll[p[1]].avgDifficulty, eveningAll[p[2]].avgDifficulty)})
    IN schedulePass(SliceFirst(morningHabits, 3), 6, 12, 8, <<7, 10>>, TRUE)
       \o schedulePass(SliceFirst(eveningHabits, 2), 17, 21, 19, <<6, 10>>, FALSE)

scheduleTips(schedule) ==
    LET early == Pick(schedule, {k \in 1..Len(schedule) : schedule[k].slot < 12})
        avgMorningSuccess ==
            IF Len(early) = 0 THEN <<0, 1>>
            ELSE RMul(SumRats([k \in 1..Len(early) |-> early[k].predictedSuccess]),
                      <<1, Len(early)>>)
    IN IF Len(schedule) > 0
       THEN <<"Schedule is based on your historical performance patterns",
              IF RGt(avgMorningSuccess, <<8, 10>>)
              THEN "You're a morning person! Front-load your difficult habits"
              ELSE "Consider lighter habits in the morning, save energy for later">>
       ELSE <<"Complete more habits to generate personalized scheduling recommendations">>

generateOptimalSchedule(hs) ==
    LET schedule == scheduleOf([i \in 1..Len(hs) |-> habitTiming(hs[i])])
    IN [schedule |-> schedule, tips |-> scheduleTips(schedule)]

---------------------------------------------------------------------------
(* The snapshots the engine is given.  A habit's history is a weekly       *)
(* routine kept for Weeks weeks, one entry per calendar day at most.  The   *)
(* insights route reads the entries newest first (orderBy date desc); the   *)
(* entries route writes them one day after the other, oldest first.  A      *)
(* routine says on which weekdays the habit is logged, on which of them it  *)
(* is missed, and what the entry form records with it.                      *)

NoHours == [d \in 0..6 |-> NoHour]
Unrated == [d \in 0..6 |-> 0]

Routine(days, miss, lapse, hours, tod, mood, difficulty, drift) ==
    [days |-> days, miss |-> miss, lapse |-> lapse, hours |-> hours,
     timeOfDay |-> tod, mood |-> mood, difficulty |-> difficulty, drift |-> drift]

\* logged every day and always done at 8, in a good mood, getting easier
Steady == Routine(0..6, {}, {}, [d \in 0..6 |-> 8], "morning", 9,
                  [d \in 0..6 |-> 7], -2)
\* logged every day, missed on Wednesdays and Saturdays, nothing else recorded
Wobbly == Routine(0..6, {3, 6}, {}, NoHours, "", 0, Unrated, 0)
\* logged every day, done on Mondays and Thursdays only, in a bad mood
Struggling == Routine(0..6, {0, 2, 3, 5, 6}, {}, NoHours, "evening", 3,
                      [d \in 0..6 |-> 4], 2)
\* logged on Mondays, Wednesdays and Fridays at 19, getting harder
ThreeADay == Routine({1, 3, 5}, {}, {}, [d \in 0..6 |-> 19], "evening", 6,
                     [d \in 0..6 |-> 3], 2)
\* done at 8, 13 or 19 depending on the weekday, missed on Fridays and Saturdays
Shifting == Routine(0..6, {5, 6}, {},
                    [d \in 0..6 |-> IF d = 0 THEN NoHour ELSE IF d <= 2 THEN 8
                                    ELSE IF d <= 4 THEN 13 ELSE 19],
                    "", 0, Unrated, 0)
\* logged on weekdays; afternoon sessions, missed on Tuesdays
Afternoons == Routine(1..5, {2}, {}, NoHours, "afternoon", 0,
                      [d \in 0..6 |-> 5], 0)
\* created but never logged
Untracked == Routine({}, {}, {}, NoHours, "", 0, Unrated, 0)
\* done every day until the Friday and Saturday of the latest week
Relapsed == Routine(0..6, {}, {5, 6}, NoHours, "", 0, Unrated, 0)
\* done every day: Mondays at 8 and as hard as it gets, other days at 20, easy
HardMondays == Routine(0..6, {}, {},
                       [d \in 0..6 |-> IF d = 1 THEN 8 ELSE 20], "", 0,
                       [d \in 0..6 |-> IF d = 1 THEN 10 ELSE 1], 0)
\* the reverse: Mondays at 8 are easy, the other days at 20 as hard as it gets
EasyMondays == Routine(0..6, {}, {},
                       [d \in 0..6 |-> IF d = 1 THEN 8 ELSE 20], "", 0,
                       [d \in 0..6 |-> IF d = 1 THEN 1 ELSE 10], 0)

Routines == {Steady, Wobbly, Struggling, ThreeADay, Shifting, Afternoons,
             Untracked, Relapsed}

\* the entry of week w (1..Weeks), weekday d
EntryOf(r, w, d) ==
    [date |-> 7 * (w - 1) + d,
     completed |-> d \notin r.miss /\ ~(w = Weeks /\ d \in r.lapse),
     hour |-> r.hours[d],
     timeOfDay |-> r.timeOfDay,
     mood |-> r.mood,
     difficulty |-> IF r.difficulty[d] = 0 THEN 0
                    ELSE r.difficulty[d] + (w - 1) * r.drift]

EntriesOf(r) ==
    LET slots == Pick([k \in 1..(7 * Weeks) |-> k - 1],
                      {k \in 1..(7 * Weeks) : ((k - 1) % 7) \in r.days})
    IN [k \in 1..Len(slots) |-> EntryOf(r, (slots[k] \div 7) + 1, slots[k] % 7)]

Reverse(s) == [k \in 1..Len(s) |-> s[Len(s) + 1 - k]]

StoredOrders == {"asc", "desc"}

\* the entries as the store hands them over
Stored(es, order) == IF order = "desc" THEN Reverse(es) ELSE es

\* ids are cuids; the model names them by their rank in string order
HabitIds == <<2, 1, 3, 4>>
HabitTitles == <<"Morning run", "Deep work", "Journal", "Drink water">>
HabitCategories == <<"Health", "Productivity", "", "Health">>

HabitOf(i, r, order) ==
    [id |-> HabitIds[i], title |-> HabitTitles[i], category |-> HabitCategories[i],
     frequency |-> "daily", entries |-> Stored(EntriesOf(r), order)]

Snapshots ==
    UNION {{[i \in 1..n |-> HabitOf(i, rs[i], order)] : rs \in [1..n -> Routines]} :
           <<n, order>> \in (0..MaxHabits) \X StoredOrders}

\* A habit logged on the given dates only (oldest first), done on the dates in
\* done, with nothing else recorded.
Diary(i, dates, done, order) ==
    [id |-> HabitIds[i], title |-> HabitTitles[i], category |-> HabitCategories[i],
     frequency |-> "daily",
     entries |-> Stored([k \in 1..Len(dates) |->
                            [date |-> dates[k], completed |-> dates[k] \in done,
                             hour |-> NoHour, timeOfDay |-> "", mood |-> 0,
                             difficulty |-> 0]], order)]

\* the Mondays of five weeks
Mondays == <<1, 8, 15, 22, 29>>

\* the days from a to b
Days(a, b) == [k \in 1..(b - a + 1) |-> a + k - 1]

\* Snapshots of habits that are not kept as a weekly routine.
Diaries ==
    UNION {{<<Diary(1, Mondays, {1, 8, 15, 22, 29}, order)>>,
            <<Diary(1, Mondays, {1, 8, 15, 22}, order)>>,
            \* two habits that share the five days 2..6, or the four days 3..6
            <<Diary(1, Days(0, 6), 0..6, order), Diary(2, Days(2, 8), 2..8, order)>>,
            <<Diary(1, Days(0, 6), 0..6, order), Diary(2, Days(3, 9), 3..9, order)>>,
            <<Diary(1, Days(0, 6), 0..6, order),
              Diary(2, Days(2, 8), {2, 3, 4, 7, 8}, order)>>,
            \* done for two weeks, then missed four days in a row
            <<Diary(1, Days(0, 17), 0..13, order)>>} :
           order \in StoredOrders}

\* the key lists a session can find in storage
StoredKeys ==
    {<<>>, <<"day_Sunday">>,
     <<"suggestion_Drink 8 glasses of water", "timing_0">>}

ToSet(s) == {s[i] : i \in 1..Len(s)}

---------------------------------------------------------------------------
(* The engine as a state machine: one action per exposed operation.        *)

NoPrediction == [op |-> "none"]

Init ==
    /\ habits \in Snapshots \cup Diaries
    /\ usedRecommendations = {}
    /\ allInsights = <<>>
    /\ insights = <<>>
    /\ marked = {}
    /\ lastKey = ""
    /\ prediction = NoPrediction
    /\ storage = <<>>
    /\ hydrated = {}
    /\ lastOp = "new"

\* setUsedRecommendations(usedRecommendations): the session hydrates the set
\* from storage before its first analysis of the snapshot
SetUsedRecommendations ==
    \E keys \in StoredKeys :
        /\ lastOp = "new"
        /\ usedRecommendations' = ToSet(keys)
        /\ hydrated' = ToSet(keys)
        /\ marked' = {}
        /\ lastOp' = "setUsedRecommendations"
        /\ UNCHANGED <<storage, habits, allInsights, insights, lastKey,
                       prediction>>

\* markRecommendationAsUsed(insight.data.recommendationType, insight.data), as
\* trackRecommendationUsage calls it for an insight on display
MarkRecommendationAsUsed ==
    \E k \in 1..Len(insights) :
        /\ HasField(insights[k].data, "recommendationType")
        /\ Cardinality(marked) < MaxMarks
        /\ LET recommendationKey ==
                   generateRecommendationKey(insights[k].data.recommendationType,
                                             insights[k].data)
           IN /\ usedRecommendations' = usedRecommendations \cup {recommendationKey}
              /\ lastKey' = recommendationKey
        /\ marked' = marked \cup {insights[k]}
        /\ lastOp' = "markRecommendationAsUsed"
        /\ UNCHANGED <<storage, hydrated, habits, allInsights, insights,
                       prediction>>

\* an analysis that records what it returns as used
AnalyzeHabitsConsuming ==
    /\ allInsights' = IF Len(habits) = 0 THEN <<>>
                      ELSE CollectInsights(habits, usedRecommendations)
    /\ insights' = IF Len(habits) = 0 THEN <<OnboardingInsight>>
                   ELSE RankInsights(allInsights')
    /\ usedRecommendations' =
           usedRecommendations
           \cup {generateRecommendationKey(insights'[k].data.recommendationType,
                                           insights'[k].data) :
                    k \in {j \in 1..Len(insights') :
                              HasField(insights'[j].data, "recommendationType")}}
    /\ lastOp' = "analyzeHabits"
    /\ UNCHANGED <<storage, hydrated, habits, marked, lastKey, prediction>>

\* analyzeHabits(habits)
AnalyzeHabits ==
    /\ allInsights' = IF Len(habits) = 0 THEN <<>>
                      ELSE CollectInsights(habits, usedRecommendations)
    /\ insights' = IF Len(habits) = 0 THEN <<OnboardingInsight>>
                   ELSE RankInsights(allInsights')
    /\ lastOp' = "analyzeHabits"
    /\ UNCHANGED <<storage, hydrated, habits, usedRecommendations, marked,
                   lastKey, prediction>>

Next ==
    \/ SetUsedRecommendations
    \/ MarkRecommendationAsUsed
    \/ AnalyzeHabits

Spec == Init /\ [][Next]_vars

---------------------------------------------------------------------------
(* The two predictors, applied to one habit at a time.  Besides the weekly *)
(* routines the habits are the short histories: up to MaxShort entries on  *)
(* consecutive days, each done or missed, with nothing else recorded.      *)

ShortEntries(n, done) ==
    [k \in 1..n |-> [date |-> k - 1, completed |-> k \in done, hour |-> NoHour,
                     timeOfDay |-> "", mood |-> 0, difficulty |-> 0]]

ShortHabit(n, done, order) ==
    [id |-> HabitIds[1], title |-> HabitTitles[1], category |-> HabitCategories[1],
     frequency |-> "daily", entries |-> Stored(ShortEntries(n, done), order)]

\* Done on six days in a row and rated each time; the first two completions
\* were logged with a completedAt, at 8, and were hard.
PartlyTimed(order) ==
    [id |-> HabitIds[1], title |-> HabitTitles[1], category |-> HabitCategories[1],
     frequency |-> "daily",
     entries |-> Stored([k \in 1..6 |->
                            [date |-> k - 1, completed |-> TRUE,
                             hour |-> IF k <= 2 THEN 8 ELSE NoHour,
                             timeOfDay |-> "", mood |-> 0,
                             difficulty |-> IF k <= 2 THEN 9 ELSE 3]], order)]

PredictedHabits ==
    {HabitOf(1, r, order) :
        <<r, order>> \in (Routines \cup {HardMondays, EasyMondays}) \X StoredOrders}
    \cup {PartlyTimed(order) : order \in StoredOrders}
    \cup UNION {{ShortHabit(n, done, order) :
                    <<done, order>> \in (SUBSET (1..n)) \X StoredOrders} :
                n \in 0..MaxShort}

\* the hours of the day a difficulty is asked for
TargetHours == {9, 15, 21}

InitPredict ==
    /\ habits \in {<<h>> : h \in PredictedHabits}
    /\ usedRecommendations = {}
    /\ allInsights = <<>>
    /\ insights = <<>>
    /\ marked = {}
    /\ lastKey = ""
    /\ prediction = NoPrediction
    /\ storage = <<>>
    /\ hydrated = {}
    /\ lastOp = "new"

\* predictTomorrowSuccess(habit), on any day of the week
PredictTomorrowSuccess ==
    \E i \in 1..Len(habits), tomorrowDayOfWeek \in 0..6 :
        /\ prediction' = [op |-> "predictTomorrowSuccess", habit |-> i,
                          dayOfWeek |-> tomorrowDayOfWeek,
                          result |-> predictTomorrowSuccess(habits[i],
                                                            tomorrowDayOfWeek)]
        /\ lastOp' = "predictTomorrowSuccess"
        /\ UNCHANGED <<storage, hydrated, habits, usedRecommendations,
                       allInsights, insights, marked, lastKey>>

\* predictHabitDifficulty(habit, targetDate)
PredictHabitDifficulty ==
    \E i \in 1..Len(habits), dayOfWeek \in 0..6, hour \in TargetHours :
        /\ prediction' = [op |-> "predictHabitDifficulty", habit |-> i,
                          dayOfWeek |-> dayOfWeek, hour |-> hour,
                          result |-> predictHabitDifficulty(habits[i], dayOfWeek,
                                                            hour)]
        /\ lastOp' = "predictHabitDifficulty"
        /\ UNCHANGED <<storage, hydrated, habits, usedRecommendations,
                       allInsights, insights, marked, lastKey>>

NextPredict ==
    \/ PredictTomorrowSuccess
    \/ PredictHabitDifficulty

SpecPredict == InitPredict /\ [][NextPredict]_vars

---------------------------------------------------------------------------
(* The whole engine: every exposed operation, in any order, on a few       *)
(* snapshots that range from no habit at all to a habit tracked for weeks. *)

EngineSnapshots ==
    {<<>>,
     <<HabitOf(1, Untracked, "asc")>>,
     <<ShortHabit(2, {1}, "asc")>>,
     <<HabitOf(1, Shifting, "asc")>>}

\* the calendar days the clock shows: the day of the latest entry, four days
\* later, and a month later
Todays == {7 * Weeks - 1, 7 * Weeks + 3, 7 * Weeks + 30}

\* the days argument of generatePerformanceForecast (7 when omitted)
ForecastLengths == {0, 1, 7}

InitEngine ==
    /\ habits \in EngineSnapshots
    /\ usedRecommendations = {}
    /\ allInsights = <<>>
    /\ insights = <<>>
    /\ marked = {}
    /\ lastKey = ""
    /\ prediction = NoPrediction
    /\ storage = <<>>
    /\ hydrated = {}
    /\ lastOp = "new"

\* predictWeekSuccess(habit)
PredictWeekSuccess ==
    \E i \in 1..Len(habits) :
        /\ prediction' = [op |-> "predictWeekSuccess", habit |-> i,
                          result |-> predictWeekSuccess(habits[i])]
        /\ lastOp' = "predictWeekSuccess"
        /\ UNCHANGED <<storage, hydrated, habits, usedRecommendations,
                       allInsights, insights, marked, lastKey>>

\* generateOptimalSchedule(habits)
GenerateOptimalSchedule ==
    /\ prediction' = [op |-> "generateOptimalSchedule",
                      result |-> generateOptimalSchedule(habits)]
    /\ lastOp' = "generateOptimalSchedule"
    /\ UNCHANGED <<storage, hydrated, habits, usedRecommendations,
                   allInsights, insights, marked, lastKey>>

\* generatePersonalizedCoaching(habits)
GeneratePersonalizedCoaching ==
    \E today \in Todays :
        /\ prediction' = [op |-> "generatePersonalizedCoaching", today |-> today,
                          result |-> generatePersonalizedCoaching(habits, today)]
        /\ lastOp' = "generatePersonalizedCoaching"
        /\ UNCHANGED <<storage, hydrated, habits, usedRecommendations,
                       allInsights, insights, marked, lastKey>>

\* generatePerformanceForecast(habits, days)
GeneratePerformanceForecast ==
    \E today \in Todays, days \in ForecastLengths :
        /\ prediction' = [op |-> "generatePerformanceForecast", today |-> today,
                          days |-> days,
                          result |-> generatePerformanceForecast(habits, days, today)]
        /\ lastOp' = "generatePerformanceForecast"
        /\ UNCHANGED <<storage, hydrated, habits, usedRecommendations,
                       allInsights, insights, marked, lastKey>>

NextEngine ==
    \/ SetUsedRecommendations
    \/ MarkRecommendationAsUsed
    \/ AnalyzeHabits
    \/ PredictTomorrowSuccess
    \/ PredictWeekSuccess
    \/ PredictHabitDifficulty
    \/ GenerateOptimalSchedule
    \/ GeneratePersonalizedCoaching
    \/ GeneratePerformanceForecast

SpecEngine == InitEngine /\ [][NextEngine]_vars

---------------------------------------------------------------------------
(* Marking and analysing over snapshots made for the used-key store: two   *)
(* habits done together under several pairs of titles, in both orders of   *)
(* the list, and three habits that trigger the suggestion rules.           *)

Titled(habit, title) == [habit EXCEPT !.title = title]

PairTitles ==
    {<<"Morning run", "Deep work">>, <<"Gym_Legs", "Day">>, <<"Gym", "Legs_Day">>}

ConnectedPair(t) ==
    <<Titled(Diary(1, Days(0, 6), 0..6, "desc"), t[1]),
      Titled(Diary(2, Days(2, 8), 2..8, "desc"), t[2])>>

Trio(i, j, k) ==
    <<Diary(i, Mondays, {1, 8, 15, 22}, "desc"),
      Diary(j, Mondays, {1, 8, 15, 22}, "desc"),
      Diary(k, Mondays, {1, 8, 15, 22}, "desc")>>

SuppressSnapshots ==
    {ConnectedPair(t) : t \in PairTitles}
    \cup {Reverse(ConnectedPair(t)) : t \in PairTitles}
    \cup {Trio(1, 2, 3), Trio(4, 2, 3), Trio(1, 3, 4)}

InitSuppress ==
    /\ habits \in SuppressSnapshots
    /\ usedRecommendations = {}
    /\ allInsights = <<>>
    /\ insights = <<>>
    /\ marked = {}
    /\ lastKey = ""
    /\ prediction = NoPrediction
    /\ storage = <<>>
    /\ hydrated = {}
    /\ lastOp = "new"

NextSuppress ==
    \/ SetUsedRecommendations
    \/ MarkRecommendationAsUsed
    \/ AnalyzeHabits

SpecSuppress == InitSuppress /\ [][NextSuppress]_vars

---------------------------------------------------------------------------
(* The used-key store on its own: the set is replaced and marked in any    *)
(* order, as a caller that hydrates it more than once makes it.            *)

\* a setUsedRecommendations that adds the keys to the ones it holds
MergeUsedRecommendations ==
    \E keys \in StoredKeys :
        /\ lastOp # "new"
        /\ usedRecommendations' = usedRecommendations \cup ToSet(keys)
        /\ hydrated' = ToSet(keys)
        /\ marked' = {}
        /\ lastOp' = "setUsedRecommendations"
        /\ UNCHANGED <<storage, habits, allInsights, insights, lastKey,
                       prediction>>

\* setUsedRecommendations(keys) later in the session
SetUsedRecommendationsAgain ==
    \E keys \in StoredKeys :
        /\ lastOp # "new"
        /\ usedRecommendations' = ToSet(keys)
        /\ hydrated' = ToSet(keys)
        /\ marked' = {}
        /\ lastOp' = "setUsedRecommendations"
        /\ UNCHANGED <<storage, habits, allInsights, insights, lastKey,
                       prediction>>

StoreSnapshots == {Trio(1, 2, 3)}

InitStore ==
    /\ habits \in StoreSnapshots
    /\ usedRecommendations = {}
    /\ allInsights = <<>>
    /\ insights = <<>>
    /\ marked = {}
    /\ lastKey = ""
    /\ prediction = NoPrediction
    /\ storage = <<>>
    /\ hydrated = {}
    /\ lastOp = "new"

NextStore ==
    \/ SetUsedRecommendations
    \/ SetUsedRecommendationsAgain
    \/ MarkRecommendationAsUsed
    \/ AnalyzeHabits

SpecStore == InitStore /\ [][NextStore]_vars

---------------------------------------------------------------------------
(* The insights component around the store.  loadUsedRecommendations and   *)
(* trackRecommendationUsage are declared async but await nothing, so each  *)
(* runs to its end before anything else does; the list in localStorage is  *)
(* written by trackRecommendationUsage only, and its reads and writes are  *)
(* taken to succeed.                                                       *)

MaxStored == 3

\* loadUsedRecommendations(), run by the effect on every change of habits
LoadUsedRecommendations ==
    /\ usedRecommendations' = ToSet(storage)
    /\ hydrated' = ToSet(storage)
    /\ marked' = {}
    /\ lastOp' = "loadUsedRecommendations"
    /\ UNCHANGED <<storage, habits, allInsights, insights, lastKey, prediction>>

\* a trackRecommendationUsage that marks and saves nothing
TrackWithoutSaving ==
    \E k \in 1..Len(insights) :
        /\ HasField(insights[k].data, "recommendationType")
        /\ Len(storage) < MaxStored
        /\ LET recommendationKey ==
                   generateRecommendationKey(insights[k].data.recommendationType,
                                             insights[k].data)
           IN /\ usedRecommendations' = usedRecommendations \cup {recommendationKey}
              /\ lastKey' = recommendationKey
        /\ marked' = marked \cup {insights[k]}
        /\ lastOp' = "trackRecommendationUsage"
        /\ UNCHANGED <<storage, hydrated, habits, allInsights, insights,
                       prediction>>

\* trackRecommendationUsage(insight) for an insight on display
TrackRecommendationUsage ==
    \E k \in 1..Len(insights) :
        /\ HasField(insights[k].data, "recommendationType")
        /\ Len(storage) < MaxStored
        /\ LET recommendationKey ==
                   generateRecommendationKey(insights[k].data.recommendationType,
                                             insights[k].data)
           IN /\ usedRecommendations' = usedRecommendations \cup {recommendationKey}
              /\ lastKey' = recommendationKey
              /\ storage' = Append(storage, recommendationKey)
        /\ marked' = marked \cup {insights[k]}
        /\ lastOp' = "trackRecommendationUsage"
        /\ UNCHANGED <<hydrated, habits, allInsights, insights, prediction>>

\* the page is loaded again: the module creates a new engine on first use
ReloadPage ==
    /\ usedRecommendations' = {}
    /\ hydrated' = {}
    /\ marked' = {}
    /\ allInsights' = <<>>
    /\ insights' = <<>>
    /\ lastKey' = ""
    /\ lastOp' = "new"
    /\ UNCHANGED <<storage, habits, prediction>>

ComponentSnapshots ==
    {Trio(1, 2, 3), ConnectedPair(<<"Morning run", "Deep work">>)}

InitComponent ==
    /\ habits \in ComponentSnapshots
    /\ usedRecommendations = {}
    /\ allInsights = <<>>
    /\ insights = <<>>
    /\ marked = {}
    /\ lastKey = ""
    /\ prediction = NoPrediction
    /\ storage \in {keys \in StoredKeys : Len(keys) < 2}
    /\ hydrated = {}
    /\ lastOp = "new"

NextComponent ==
    \/ LoadUsedRecommendations
    \/ TrackRecommendationUsage
    \/ AnalyzeHabits
    \/ ReloadPage

SpecComponent == InitComponent /\ [][NextComponent]_vars

---------------------------------------------------------------------------
(* The coach and the forecast on their own, over every snapshot of Spec.   *)

InitCoach ==
    /\ habits \in Snapshots
    /\ usedRecommendations = {}
    /\ allInsights = <<>>
    /\ insights = <<>>
    /\ marked = {}
    /\ lastKey = ""
    /\ prediction = NoPrediction
    /\ storage = <<>>
    /\ hydrated = {}
    /\ lastOp = "new"

NextCoach ==
    \/ GeneratePersonalizedCoaching
    \/ GeneratePerformanceForecast

SpecCoach == InitCoach /\ [][NextCoach]_vars

---------------------------------------------------------------------------
(* The scheduler on its own, given up to MaxScheduled habits.  What it     *)
(* reads of a habit is, per entry, the hour of completedAt, whether the     *)
(* entry is completed and its difficulty; a profile lists these, one triple *)
(* per entry.  An entry that was completed and then undone keeps its        *)
(* completedAt (the entries route leaves the column alone when the request  *)
(* carries none).                                                           *)

MaxScheduled == 5

TimingProfiles ==
    {\* done at 7, easy
     <<<<7, TRUE, 2>>, <<7, TRUE, 2>>>>,
     \* done at 8 and, harder, at 18
     <<<<8, TRUE, 6>>, <<8, TRUE, 6>>, <<18, TRUE, 8>>, <<18, TRUE, 8>>>>,
     \* done at 19
     <<<<19, TRUE, 4>>, <<19, TRUE, 4>>>>,
     \* done at 11, once out of two
     <<<<11, TRUE, 5>>, <<11, FALSE, 5>>>>,
     \* ticked at 9 twice and undone both times, done at 20 once
     <<<<9, FALSE, 3>>, <<9, FALSE, 3>>, <<20, TRUE, 3>>>>,
     \* done without a completedAt
     <<<<NoHour, TRUE, 9>>, <<NoHour, TRUE, 9>>>>}

TimedHabit(i, profile) ==
    [id |-> i, title |-> "Habit " \o ToString(i), category |-> "",
     frequency |-> "daily",
     entries |-> [k \in 1..Len(profile) |->
                     [date |-> k - 1, completed |-> profile[k][2],
                      hour |-> profile[k][1], timeOfDay |-> "", mood |-> 0,
                      difficulty |-> profile[k][3]]]]

\* the lists of n habits
ScheduleSnapshots(n) ==
    {[i \in 1..n |-> TimedHabit(i, ps[i])] : ps \in [1..n -> TimingProfiles]}

InitSchedule ==
    /\ \E n \in 0..MaxScheduled : habits \in ScheduleSnapshots(n)
    /\ usedRecommendations = {}
    /\ allInsights = <<>>
    /\ insights = <<>>
    /\ marked = {}
    /\ lastKey = ""
    /\ prediction = NoPrediction
    /\ storage = <<>>
    /\ hydrated = {}
    /\ lastOp = "new"

NextSchedule == GenerateOptimalSchedule

SpecSchedule == InitSchedule /\ [][NextSchedule]_vars

---------------------------------------------------------------------------
(* Properties of analyzeHabits, checked under Spec.                        *)

\* C1: whatever the habits and the used recommendations, analyzeHabits returns
\* at most 8 insights and each of them has a confidence between 0 and 1.
C1_AtMostEightConfident ==
    /\ Len(insights) <= 8
    /\ \A k \in 1..Len(insights) :
           /\ RGe(insights[k].confidence, <<0, 1>>)
           /\ RLe(insights[k].confidence, <<1, 1>>)

\* a session with used recommendations in which the analyzers produced more
\* than eight insights and eight were returned
C1_Witness ==
    /\ lastOp = "analyzeHabits"
    /\ usedRecommendations # {}
    /\ Len(allInsights) > 8
    /\ Len(insights) = 8

\* C2: for an empty habit list analyzeHabits returns exactly one insight, the
\* onboarding insight with confidence 1, whatever the used recommendations.
C2_OnboardingWhenEmpty ==
    (lastOp = "analyzeHabits" /\ Len(habits) = 0) =>
        /\ Len(insights) = 1
        /\ insights[1].title = "Start Your Journey"
        /\ insights[1].type = "recommendation"
        /\ insights[1].confidence = <<1, 1>>

\* an empty list analysed by a session that has used recommendations
C2_Witness ==
    /\ lastOp = "analyzeHabits"
    /\ Len(habits) = 0
    /\ usedRecommendations # {}
    /\ Len(insights) = 1

\* C3: for a non-empty habit list the result is ordered by priority weight
\* (high 3, medium 2, low 1) descending and by confidence descending among
\* equal priorities, and no insight an analyzer produced but the result omits
\* ranks above an insight of the result.
C3_RankedAndTopKept ==
    LET weight(x) == CASE x.priority = "high" -> 3
                       [] x.priority = "medium" -> 2
                       [] x.priority = "low" -> 1
        above(x, y) == \/ weight(x) > weight(y)
                       \/ weight(x) = weight(y) /\ RGt(x.confidence, y.confidence)
        produced == {allInsights[k] : k \in 1..Len(allInsights)}
        returned == {insights[k] : k \in 1..Len(insights)}
    IN (lastOp = "analyzeHabits" /\ Len(habits) > 0) =>
           /\ \A k \in 1..(Len(insights) - 1) : ~above(insights[k + 1], insights[k])
           /\ \A x \in produced \ returned : \A y \in returned : ~above(x, y)

\* a truncated result in which both the priority and the confidence decide:
\* two priorities are present, and two neighbours of one priority differ in
\* confidence
C3_Witness ==
    /\ lastOp = "analyzeHabits"
    /\ Len(allInsights) > 8
    /\ \E k \in 1..(Len(insights) - 1) :
           insights[k].priority # insights[k + 1].priority
    /\ \E k \in 1..(Len(insights) - 1) :
           /\ insights[k].priority = insights[k + 1].priority
           /\ RGt(insights[k].confidence, insights[k + 1].confidence)

\* C4: once an insight that carries data.recommendationType has been marked as
\* used, a further analysis of the same snapshot returns no insight with the
\* same title and the same recommendationType.
C4_MarkedNotReturnedAgain ==
    lastOp = "analyzeHabits" =>
        \A m \in marked :
            ~\E k \in 1..Len(insights) :
                /\ insights[k].title = m.title
                /\ HasField(insights[k].data, "recommendationType")
                /\ insights[k].data.recommendationType = m.data.recommendationType

\* C8: the correlation of two habits does not depend on which of them comes
\* first, and the correlation analysis produces at most one "Strong Connection
\* Found" insight for an unordered pair of habits.
C8_SymmetricOncePerPair ==
    LET strong == {k \in 1..Len(allInsights) :
                      allInsights[k].title = "Strong Connection Found"}
        pair(k) == {allInsights[k].data.habit1, allInsights[k].data.habit2}
    IN /\ \A i, j \in 1..Len(habits) :
              calculateHabitCorrelation(habits[i], habits[j])
                  = calculateHabitCorrelation(habits[j], habits[i])
       /\ \A k, l \in strong : k # l => pair(k) # pair(l)

\* two habits with different histories that are correlated strongly but not
\* perfectly, and the insight for the pair
C8_Witness ==
    /\ lastOp = "analyzeHabits"
    /\ Len(habits) = 2
    /\ habits[1].entries # habits[2].entries
    /\ RLt(calculateHabitCorrelation(habits[1], habits[2]), <<1, 1>>)
    /\ \E k \in 1..Len(allInsights) :
           /\ allInsights[k].title = "Strong Connection Found"
           /\ allInsights[k].data.habit1 = habits[1].title
           /\ allInsights[k].data.habit2 = habits[2].title

\* every habit of the snapshot with its entries in the opposite order
ReorderedHabits(hs) ==
    [i \in 1..Len(hs) |-> [hs[i] EXCEPT !.entries = Reverse(hs[i].entries)]]

\* C10: the result of analyzeHabits is the same when the entries inside the
\* habits are stored in another order, here in the opposite one.
C10_EntryOrderIrrelevant ==
    lastOp = "analyzeHabits" =>
        insights = analyzeHabits(ReorderedHabits(habits), usedRecommendations)

---------------------------------------------------------------------------
(* Properties of the predictors, checked under SpecPredict.                *)

\* C5: the probability predictTomorrowSuccess returns lies between 0.1 and
\* 0.9 for every habit.
C5_ProbabilityClamped ==
    prediction.op = "predictTomorrowSuccess" =>
        /\ RGe(prediction.result.probability, <<1, 10>>)
        /\ RLe(prediction.result.probability, <<9, 10>>)

\* a habit always done, on a weekday with a perfect record: the weighted sum
\* is 1 and 0.9 is returned
C5_Witness ==
    /\ prediction.op = "predictTomorrowSuccess"
    /\ prediction.result.probability = <<9, 10>>
    /\ prediction.result.factors =
           <<"Strong recent performance", "Good day-of-week track record">>

C7_DifficultyClamped ==
    prediction.op = "predictHabitDifficulty" =>
        /\ RGe(prediction.result.predictedDifficulty, <<1, 1>>)
        /\ RLe(prediction.result.predictedDifficulty, <<10, 1>>)

\* both adjustments raise the average by more than a point and 10 is returned
C7_Witness ==
    /\ prediction.op = "predictHabitDifficulty"
    /\ RGt(prediction.result.dayAdjustment, <<1, 1>>)
    /\ RGt(prediction.result.timeAdjustment, <<1, 1>>)
    /\ prediction.result.predictedDifficulty = <<10, 1>>

\* C13: when the best-rate weekday among the weekdays with at least 3 entries
\* (all habits pooled; the earliest weekday, Sunday first, when several share
\* the best rate) has a completion rate above 0.8 and the key day_<DayName> is
\* not in the used set, the analysis emits '<DayName> Champion' with priority
\* medium, confidence 0.9 and data.bestDay = <DayName>.
C13_ChampionForBestDay ==
    lastOp = "analyzeHabits" /\ Len(habits) > 0 =>
        LET logged == UNION {{<<i, k>> : k \in DOMAIN habits[i].entries} :
                             i \in 1..Len(habits)}
            total(d) == Cardinality({p \in logged :
                            habits[p[1]].entries[p[2]].date % 7 = d})
            done(d) == Cardinality({p \in logged :
                            /\ habits[p[1]].entries[p[2]].date % 7 = d
                            /\ habits[p[1]].entries[p[2]].completed})
            eligible == {d \in 0..6 : total(d) >= 3}
            best == {d \in eligible :
                        /\ \A e \in eligible : done(e) * total(d) <= done(d) * total(e)
                        /\ \A e \in eligible :
                              e < d => done(e) * total(d) < done(d) * total(e)}
        IN \A d \in best :
              /\ 10 * done(d) > 8 * total(d)
              /\ ("day_" \o dayNames[d + 1]) \notin usedRecommendations
              => \E k \in 1..Len(allInsights) :
                    /\ allInsights[k].title = dayNames[d + 1] \o " Champion"
                    /\ allInsights[k].priority = "medium"
                    /\ allInsights[k].confidence = <<9, 10>>
                    /\ allInsights[k].data.bestDay = dayNames[d + 1]

\* one habit, logged on five Mondays and done on each, has been analysed
C13_Witness ==
    /\ lastOp = "analyzeHabits"
    /\ Len(habits) = 1
    /\ Len(habits[1].entries) = 5
    /\ \A k \in 1..5 : /\ habits[1].entries[k].date % 7 = 1
                        /\ habits[1].entries[k].completed
    /\ \E k \in 1..Len(allInsights) :
          /\ allInsights[k].title = "Monday Champion"
          /\ allInsights[k].data.bestDay = "Monday"

\* C14: for two habits the correlation is 0 when they share fewer than 5
\* calendar dates and otherwise (shared dates with both completed) / (shared
\* dates with at least one completed); a 'Strong Connection Found' insight for
\* the pair is emitted exactly when the correlation exceeds 0.6 and the key
\* correlation_<title1>_<title2> is unused, once, with the correlation as its
\* confidence.
C14_CorrelationFormulaAndEmission ==
    lastOp = "analyzeHabits" =>
        \A i, j \in 1..Len(habits) : i < j =>
            LET es1 == habits[i].entries
                es2 == habits[j].entries
                shared == {a \in 1..Len(es1) :
                              \E b \in 1..Len(es2) : es2[b].date = es1[a].date}
                other(a) == CHOOSE b \in 1..Len(es2) : es2[b].date = es1[a].date
                both == Cardinality({a \in shared :
                            es1[a].completed /\ es2[other(a)].completed})
                either == Cardinality({a \in shared :
                              es1[a].completed \/ es2[other(a)].completed})
                enough == Cardinality(shared) >= 5 /\ either > 0
                found == {k \in 1..Len(allInsights) :
                             /\ allInsights[k].title = "Strong Connection Found"
                             /\ allInsights[k].data.habit1 = habits[i].title
                             /\ allInsights[k].data.habit2 = habits[j].title}
                key == "correlation_" \o habits[i].title \o "_" \o habits[j].title
                c == calculateHabitCorrelation(habits[i], habits[j])
            IN /\ c[1] * (IF enough THEN either ELSE 1)
                     = (IF enough THEN both ELSE 0) * c[2]
               /\ IF enough /\ 10 * both > 6 * either
                     /\ key \notin usedRecommendations
                  THEN /\ Cardinality(found) = 1
                       /\ \A k \in found :
                              allInsights[k].confidence[1] * either
                                  = both * allInsights[k].confidence[2]
                  ELSE found = {}

\* two habits that share exactly five dates and are done on all five
C14_Witness ==
    /\ lastOp = "analyzeHabits"
    /\ Len(habits) = 2
    /\ Cardinality(DatesOf(habits[1]) \cap DatesOf(habits[2])) = 5
    /\ \A i \in 1..2 : \A k \in 1..Len(habits[i].entries) :
           habits[i].entries[k].completed
    /\ Cardinality({k \in 1..Len(allInsights) :
                       /\ allInsights[k].title = "Strong Connection Found"
                       /\ allInsights[k].confidence = <<1, 1>>}) = 1

\* C15: for a habit whose recent window (its 14 latest entries by date, all
\* of them when it has fewer) holds at least 7 entries, a 'Streak at Risk'
\* insight (priority high, confidence 0.75) is emitted exactly when the
\* window's completion rate is above 0.7 and the population variance of its
\* 0/1 completion sequence, c(n - c)/n^2 for c completed of n, is above 0.15.
C15_StreakAtRiskOnRecentWindow ==
    lastOp = "analyzeHabits" =>
        \A i \in 1..Len(habits) :
            LET es == habits[i].entries
                window == {a \in 1..Len(es) :
                              Cardinality({b \in 1..Len(es) :
                                              es[b].date > es[a].date}) < 14}
                n == Cardinality(window)
                c == Cardinality({a \in window : es[a].completed})
                found == {k \in 1..Len(allInsights) :
                             /\ allInsights[k].title
                                    = "\"" \o habits[i].title \o "\" Streak at Risk"
                             /\ allInsights[k].priority = "high"
                             /\ allInsights[k].confidence = <<3, 4>>}
            IN n >= 7 =>
                  (found # {} <=> /\ 10 * c > 7 * n
                                  /\ 100 * c * (n - c) > 15 * n * n)

\* C16: whatever the used-recommendation set holds, the analysis emits
\* '<DayName> Needs Attention' (priority high, confidence 0.8) exactly for the
\* worst-rate weekday among the weekdays with at least 3 entries (the earliest
\* of them when several share the worst rate), and exactly when that day's
\* rate is below 0.5 and it has at least 5 entries; a key stored for the
\* Champion of a day does not suppress it.
C16_NeedsAttentionWhateverIsUsed ==
    lastOp = "analyzeHabits" /\ Len(habits) > 0 =>
        LET logged == UNION {{<<i, k>> : k \in DOMAIN habits[i].entries} :
                             i \in 1..Len(habits)}
            total(d) == Cardinality({p \in logged :
                            habits[p[1]].entries[p[2]].date % 7 = d})
            done(d) == Cardinality({p \in logged :
                            /\ habits[p[1]].entries[p[2]].date % 7 = d
                            /\ habits[p[1]].entries[p[2]].completed})
            eligible == {d \in 0..6 : total(d) >= 3}
            worst == {d \in eligible :
                         /\ \A e \in eligible : done(d) * total(e) <= done(e) * total(d)
                         /\ \A e \in eligible :
                               e < d => done(d) * total(e) < done(e) * total(d)}
        IN \A d \in 0..6 :
              (\E k \in 1..Len(allInsights) :
                    /\ allInsights[k].title = dayNames[d + 1] \o " Needs Attention"
                    /\ allInsights[k].priority = "high"
                    /\ allInsights[k].confidence = <<4, 5>>)
              <=> (d \in worst /\ 2 * done(d) < total(d) /\ total(d) >= 5)

\* C17: a 'Best Time of Day' insight names a bucket with at least 3 entries
\* whose success rate, (completed entries with that timeOfDay) / (all entries
\* with that timeOfDay), is the highest among the buckets with at least 3
\* entries, and data.rate is that rate.
C17_BestTimeOfDayRate ==
    lastOp = "analyzeHabits" =>
        LET logged == UNION {{<<i, k>> : k \in DOMAIN habits[i].entries} :
                             i \in 1..Len(habits)}
            all(b) == Cardinality({p \in logged :
                          habits[p[1]].entries[p[2]].timeOfDay = b})
            done(b) == Cardinality({p \in logged :
                          /\ habits[p[1]].entries[p[2]].timeOfDay = b
                          /\ habits[p[1]].entries[p[2]].completed})
            buckets == {b \in {"morning", "afternoon", "evening", "night"} :
                           all(b) >= 3}
        IN \A k \in 1..Len(allInsights) :
              allInsights[k].confidence = <<17, 20>>
              /\ HasField(allInsights[k].data, "bestPeriod")
              /\ HasField(allInsights[k].data, "rate") =>
                  LET b == allInsights[k].data.bestPeriod
                      rate == allInsights[k].data.rate
                  IN /\ b \in buckets
                     /\ rate[1] * all(b) = done(b) * rate[2]
                     /\ \A o \in buckets : done(o) * all(b) <= done(b) * all(o)

\* C20: for every unordered pair of habits, taken with the smaller id first,
\* the stacking analysis emits one 'Habit Stacking Opportunity' insight when
\* the number of calendar dates with both habits completed is at least 5 and
\* the key stacking_<title1>_<title2> is unused, and none otherwise; its
\* confidence is min(0.9, count / 10), which lies between 0.5 and 0.9.
C20_StackingOncePerPair ==
    lastOp = "analyzeHabits" =>
        \A i, j \in 1..Len(habits) : habits[i].id < habits[j].id =>
            LET es1 == habits[i].entries
                es2 == habits[j].entries
                count == Cardinality({d \in 0..(7 * Weeks + 14) :
                             /\ \E a \in 1..Len(es1) :
                                   es1[a].date = d /\ es1[a].completed
                             /\ \E b \in 1..Len(es2) :
                                   es2[b].date = d /\ es2[b].completed})
                key == "stacking_" \o habits[i].title \o "_" \o habits[j].title
                found == {k \in 1..Len(allInsights) :
                             /\ allInsights[k].title = "Habit Stacking Opportunity"
                             /\ allInsights[k].data.habit1 = habits[i].title
                             /\ allInsights[k].data.habit2 = habits[j].title}
                reversed == {k \in 1..Len(allInsights) :
                                /\ allInsights[k].title = "Habit Stacking Opportunity"
                                /\ allInsights[k].data.habit1 = habits[j].title
                                /\ allInsights[k].data.habit2 = habits[i].title}
            IN /\ reversed = {}
               /\ IF count >= 5 /\ key \notin usedRecommendations
                  THEN /\ Cardinality(found) = 1
                       /\ \A k \in found :
                              /\ allInsights[k].confidence
                                     = (IF count >= 9 THEN <<9, 10>> ELSE Rat(count, 10))
                              /\ RGe(allInsights[k].confidence, <<1, 2>>)
                              /\ RLe(allInsights[k].confidence, <<9, 10>>)
                  ELSE found = {}

\* two habits done together on exactly five dates, and the insight for them
\* with confidence 0.5
C20_Witness ==
    /\ lastOp = "analyzeHabits"
    /\ Len(habits) = 2
    /\ \E k \in 1..Len(allInsights) :
          /\ allInsights[k].title = "Habit Stacking Opportunity"
          /\ allInsights[k].data.frequency = 5
          /\ allInsights[k].confidence = <<1, 2>>
          /\ allInsights[k].data.habit1 = habits[2].title
          /\ allInsights[k].data.habit2 = habits[1].title

---------------------------------------------------------------------------
(* Further properties of the predictors, checked under SpecPredict.        *)

\* C18: for a habit with at least 3 entries predictTomorrowSuccess returns
\* clamp(0.1, 0.9, 0.7 * recentRate + 0.3 * dayOfWeekRate), where recentRate is
\* the completion rate of the habit's 7 latest entries by date (all of them
\* when it has fewer) and dayOfWeekRate that of its entries on tomorrow's
\* weekday, 0.5 when there are fewer than 3; the recommendation is the
\* reminder text below 0.4, the on-track text above 0.8 and the focus text
\* otherwise, judged on the returned probability.
C18_TomorrowFormula ==
    prediction.op = "predictTomorrowSuccess"
    /\ Len(habits[prediction.habit].entries) >= 3 =>
        LET es == habits[prediction.habit].entries
            latest == {a \in 1..Len(es) :
                          Cardinality({b \in 1..Len(es) :
                                          es[b].date > es[a].date}) < 7}
            recentRate == Rat(Cardinality({a \in latest : es[a].completed}),
                              Cardinality(latest))
            onDay == {a \in 1..Len(es) : es[a].date % 7 = prediction.dayOfWeek}
            dayOfWeekRate ==
                IF Cardinality(onDay) >= 3
                THEN Rat(Cardinality({a \in onDay : es[a].completed}),
                         Cardinality(onDay))
                ELSE <<1, 2>>
            raw == RAdd(RMul(<<7, 10>>, recentRate), RMul(<<3, 10>>, dayOfWeekRate))
            returned == prediction.result.probability
        IN /\ returned = RMax(<<1, 10>>, RMin(<<9, 10>>, raw))
           /\ prediction.result.recommendation =
                  IF RLt(returned, <<4, 10>>)
                  THEN "Consider setting a reminder or simplifying this habit for tomorrow."
                  ELSE IF RGt(returned, <<8, 10>>)
                  THEN "You're on track for success! Keep up the great work."
                  ELSE "Focus extra attention on this habit tomorrow to maintain momentum."

\* C19 (as the code has it): with at least 5 completed rated entries,
\* timeAdjustment is the mean difficulty of the entries whose completedAt hour
\* is within 2 hours of the target hour, minus the base difficulty, when at
\* least 3 of the considered entries carry a completedAt and at least 2 of
\* those are within 2 hours of the target hour; otherwise it is 0.
C19_TimeAdjustmentNeedsThreeTimed ==
    prediction.op = "predictHabitDifficulty" =>
        LET es == habits[prediction.habit].entries
            considered == {a \in 1..Len(es) : es[a].completed /\ es[a].difficulty # 0}
            timed == {a \in considered : es[a].hour # NoHour}
            similar == {a \in timed :
                           /\ es[a].hour - prediction.hour <= 2
                           /\ prediction.hour - es[a].hour <= 2}
            base == Rat(SumInts([k \in 1..Len(es) |->
                            IF k \in considered THEN es[k].difficulty ELSE 0]),
                        Cardinality(considered))
            mean == Rat(SumInts([k \in 1..Len(es) |->
                            IF k \in similar THEN es[k].difficulty ELSE 0]),
                        Cardinality(similar))
        IN Cardinality(considered) >= 5 =>
              prediction.result.timeAdjustment =
                  IF Cardinality(timed) >= 3 /\ Cardinality(similar) >= 2
                  THEN RSub(mean, base) ELSE <<0, 1>>

\* a difficulty asked for an hour near which three completions lie, and the
\* adjustment it brings
C19_Witness ==
    /\ prediction.op = "predictHabitDifficulty"
    /\ LET es == habits[prediction.habit].entries
       IN Cardinality({a \in 1..Len(es) :
                          /\ es[a].completed /\ es[a].difficulty # 0
                          /\ es[a].hour # NoHour
                          /\ Abs(es[a].hour - prediction.hour) <= 2}) >= 3
    /\ prediction.result.timeAdjustment # <<0, 1>>

\* C19 (as stated): with at least 5 completed rated entries, timeAdjustment is
\* the mean difficulty of the entries within 2 hours of the target hour minus
\* the base difficulty whenever at least 2 such entries exist, and 0 otherwise.
C19_TimeAdjustmentFromTwoSimilar ==
    prediction.op = "predictHabitDifficulty" =>
        LET es == habits[prediction.habit].entries
            considered == {a \in 1..Len(es) : es[a].completed /\ es[a].difficulty # 0}
            similar == {a \in considered :
                           /\ es[a].hour # NoHour
                           /\ es[a].hour - prediction.hour <= 2
                           /\ prediction.hour - es[a].hour <= 2}
            base == Rat(SumInts([k \in 1..Len(es) |->
                            IF k \in considered THEN es[k].difficulty ELSE 0]),
                        Cardinality(considered))
            mean == Rat(SumInts([k \in 1..Len(es) |->
                            IF k \in similar THEN es[k].difficulty ELSE 0]),
                        Cardinality(similar))
        IN Cardinality(considered) >= 5 =>
              prediction.result.timeAdjustment =
                  IF Cardinality(similar) >= 2 THEN RSub(mean, base) ELSE <<0, 1>>

---------------------------------------------------------------------------
(* Properties of the engine as a whole, checked under SpecEngine.          *)

\* C11: on sparse or empty input every operation returns a result of its
\* shape, and a predictor given fewer than its minimum sample (tomorrow: 3
\* entries, week: 7 entries, difficulty: 5 completed rated entries) returns
\* its insufficient-data result (0.5, 0.5, 5).
C11_SparseInputDegrades ==
    LET es == habits[prediction.habit].entries
        rated == {k \in 1..Len(es) : es[k].completed /\ es[k].difficulty # 0}
        res == prediction.result
    IN /\ Len(insights) <= 8
       /\ prediction.op = "predictTomorrowSuccess" =>
              /\ DOMAIN res = {"probability", "factors", "recommendation"}
              /\ Len(es) < 3 => /\ res.probability = <<1, 2>>
                                /\ res.factors = <<"Insufficient data">>
       /\ prediction.op = "predictWeekSuccess" =>
              /\ DOMAIN res = {"dailyProbabilities", "weeklyProbability",
                               "riskFactors", "successFactors", "recommendations"}
              /\ Len(es) < 7 => /\ res.weeklyProbability = <<1, 2>>
                                /\ res.dailyProbabilities = <<>>
                                /\ res.riskFactors = <<"Insufficient historical data">>
       /\ prediction.op = "predictHabitDifficulty" =>
              /\ {"predictedDifficulty", "factors", "recommendations", "confidence"}
                     \subseteq DOMAIN res
              /\ Cardinality(rated) < 5 =>
                     /\ res.predictedDifficulty = <<5, 1>>
                     /\ res.factors = <<"Insufficient difficulty data">>
                     /\ res.confidence = <<3, 10>>
       /\ prediction.op = "generateOptimalSchedule" =>
              /\ DOMAIN res = {"schedule", "tips"}
              /\ Len(res.tips) >= 1
       /\ prediction.op = "generatePersonalizedCoaching" =>
              /\ DOMAIN res = {"motivationalMessage", "focusArea", "actionPlan",
                               "encouragement", "weeklyGoals"}
              /\ Len(res.actionPlan) >= 3
       /\ prediction.op = "generatePerformanceForecast" =>
              /\ DOMAIN res = {"forecast", "summary"}
              /\ Len(res.forecast) = prediction.days

\* a difficulty asked for a habit done many times but never rated
C11_Witness ==
    /\ prediction.op = "predictHabitDifficulty"
    /\ LET es == habits[prediction.habit].entries
       IN /\ Cardinality({k \in 1..Len(es) : es[k].completed}) >= 5
          /\ \A k \in 1..Len(es) :
                 /\ es[k].difficulty = 0 /\ es[k].mood = 0 /\ es[k].timeOfDay = ""
    /\ prediction.result.factors = <<"Insufficient difficulty data">>

\* C12: in any sequence of calls the used-recommendation set changes only in a
\* step of setUsedRecommendations or markRecommendationAsUsed; the analysis,
\* the three predictors and the three generators leave it as it is.
C12_OnlyAccessorsChangeUsedSet ==
    [][usedRecommendations' # usedRecommendations =>
           lastOp' \in {"setUsedRecommendations", "markRecommendationAsUsed"}]_vars

\* a generator has run in a session that hydrated the set and marked an
\* insight, and the marked key is still in the set
C12_Witness ==
    /\ lastOp = "generateOptimalSchedule"
    /\ marked # {}
    /\ lastKey \in usedRecommendations
    /\ Cardinality(usedRecommendations) >= 2

---------------------------------------------------------------------------
(* Properties of generateOptimalSchedule, checked under SpecSchedule.      *)

Scheduled == lastOp = "generateOptimalSchedule"

\* The rows the evening pass pushed are the ones with its fixed reason.
EveningRows(schedule) ==
    {k \in 1..Len(schedule) :
        schedule[k].reason = "Consistent performance at this time"}

MorningRows(schedule) == (1..Len(schedule)) \ EveningRows(schedule)

\* C21: the schedule generateOptimalSchedule returns has at most 5 entries,
\* at most 3 of them pushed by the morning pass and at most 2 by the evening
\* pass, and no habit id occurs in two entries.
C21_ScheduleCaps ==
    Scheduled =>
        LET schedule == prediction.result.schedule
        IN /\ Len(schedule) <= 5
           /\ Cardinality(MorningRows(schedule)) <= 3
           /\ Cardinality(EveningRows(schedule)) <= 2
           /\ \A j, k \in 1..Len(schedule) :
                  schedule[j].habitId = schedule[k].habitId => j = k

\* Three morning rows and two evening rows, out of five habits.
C21_Witness ==
    /\ Scheduled
    /\ Len(habits) = 5
    /\ Cardinality(MorningRows(prediction.result.schedule)) = 3
    /\ Cardinality(EveningRows(prediction.result.schedule)) = 2

HasBestHourIn(habit, lo, hi) ==
    \E i \in 1..Len(habitTiming(habit).bestTimes) :
        /\ habitTiming(habit).bestTimes[i].hour >= lo
        /\ habitTiming(habit).bestTimes[i].hour < hi

InMorningRow(schedule, id) ==
    \E k \in MorningRows(schedule) : schedule[k].habitId = id

EveningCandidate(hs, schedule, i) ==
    HasBestHourIn(hs[i], 17, 21) /\ ~InMorningRow(schedule, hs[i].id)

\* C22: every habit with a best hour in 17..20 that got no morning row is a
\* candidate of the evening pass: when fewer than two other candidates are
\* at least as hard, it is in the schedule, whether or not it also has a
\* morning best hour.
C22_EveningCandidatesScheduled ==
    Scheduled =>
        \A i \in 1..Len(habits) :
            (/\ EveningCandidate(habits, prediction.result.schedule, i)
             /\ Cardinality({j \in (1..Len(habits)) \ {i} :
                    /\ EveningCandidate(habits, prediction.result.schedule, j)
                    /\ RGe(habitTiming(habits[j]).avgDifficulty,
                           habitTiming(habits[i]).avgDifficulty)}) < 2)
            => \E k \in 1..Len(prediction.result.schedule) :
                   prediction.result.schedule[k].habitId = habits[i].id

\* C27: the entries of a schedule have pairwise distinct times, and the hour
\* of every entry the morning pass pushed is in 6..11, so that the tip's
\* filter (hour < 12) counts it.
C27_DistinctMorningTimes ==
    Scheduled =>
        LET schedule == prediction.result.schedule
        IN /\ \A j, k \in 1..Len(schedule) :
                  schedule[j].time = schedule[k].time => j = k
           /\ \A k \in MorningRows(schedule) :
                  schedule[k].slot >= 6 /\ schedule[k].slot < 12

\* completed / total over the entries with a completedAt in hour h.
HourlyRate(habit, h) ==
    Rat(Cardinality({k \in 1..Len(habit.entries) :
                        habit.entries[k].hour = h /\ habit.entries[k].completed}),
        Cardinality({k \in 1..Len(habit.entries) : habit.entries[k].hour = h}))

\* The hour chosen for row k: its time less its index in its pass.
ChosenHour(schedule, k) ==
    schedule[k].slot
    - (IF k \in MorningRows(schedule) THEN k - 1
       ELSE k - 1 - Cardinality(MorningRows(schedule)))

HabitById(hs, id) == hs[CHOOSE i \in 1..Len(hs) : hs[i].id = id]

\* C28: predictedSuccess of every schedule entry is the habit's historical
\* success rate at the hour chosen for it, a rate of 0 included, and the
\* entry's reason states that percentage.
C28_SuccessIsHistoricalRate ==
    Scheduled =>
        \A k \in 1..Len(prediction.result.schedule) :
            /\ prediction.result.schedule[k].predictedSuccess =
                   HourlyRate(HabitById(habits, prediction.result.schedule[k].habitId),
                              ChosenHour(prediction.result.schedule, k))
            /\ prediction.result.schedule[k].reason =
                   "Your "
                   \o ToString(Round(RMul(
                          HourlyRate(HabitById(habits,
                                               prediction.result.schedule[k].habitId),
                                     ChosenHour(prediction.result.schedule, k)),
                          <<100, 1>>)))
                   \o "% success rate at this time"

---------------------------------------------------------------------------
(* Properties of the coach and the forecast, checked under SpecCoach.      *)

\* the entries of the last seven days, as generatePersonalizedCoaching
\* selects them
RecentEntries(hs, today) ==
    Pick(Entries(hs), {k \in 1..Len(Entries(hs)) : Entries(hs)[k].date >= today - 6})

CoachingRate(hs, today) ==
    IF Len(RecentEntries(hs, today)) = 0 THEN <<0, 1>>
    ELSE Rat(Len(Completed(RecentEntries(hs, today))), Len(RecentEntries(hs, today)))

CoachingTier(hs, today) ==
    IF RGt(CoachingRate(hs, today), <<8, 10>>) THEN 1
    ELSE IF RGt(CoachingRate(hs, today), <<6, 10>>) THEN 2
    ELSE IF RGt(CoachingRate(hs, today), <<4, 10>>) THEN 3 ELSE 4

MoodsOf(es) ==
    {k \in 1..Len(es) : es[k].completed /\ es[k].mood # 0}

LowMood(hs, today) ==
    /\ MoodsOf(RecentEntries(hs, today)) # {}
    /\ SumInts([k \in 1..Len(RecentEntries(hs, today)) |->
                   IF k \in MoodsOf(RecentEntries(hs, today))
                   THEN RecentEntries(hs, today)[k].mood ELSE 0])
          < 6 * Cardinality(MoodsOf(RecentEntries(hs, today)))

HighDifficulty(hs, today) ==
    /\ Len(Rated(RecentEntries(hs, today))) > 0
    /\ RGt(AvgDifficulty(Rated(RecentEntries(hs, today))), <<7, 1>>)

\* C23: the action plan and the weekly goals of generatePersonalizedCoaching
\* follow the tier of the message and the focus area: every other input in
\* the same of the four tiers that agrees on avgMood < 6 and on
\* avgDifficulty > 7 gets the same actionPlan and the same weeklyGoals.
C23_PlanFollowsTier ==
    lastOp = "generatePersonalizedCoaching" =>
        \A other \in Snapshots :
            (/\ CoachingTier(other, prediction.today)
                    = CoachingTier(habits, prediction.today)
             /\ LowMood(other, prediction.today) = LowMood(habits, prediction.today)
             /\ HighDifficulty(other, prediction.today)
                    = HighDifficulty(habits, prediction.today))
            => /\ generatePersonalizedCoaching(other, prediction.today).actionPlan
                      = prediction.result.actionPlan
               /\ generatePersonalizedCoaching(other, prediction.today).weeklyGoals
                      = prediction.result.weeklyGoals

\* the entries of a habit that fall on a weekday
EntriesOn(habit, dayOfWeek) ==
    {k \in 1..Len(habit.entries) : GetDay(habit.entries[k]) = dayOfWeek}

\* a habit the forecast knows too little of on that weekday
Unknown(habit, dayOfWeek) == Cardinality(EntriesOn(habit, dayOfWeek)) < 2

ExpectedCompletions(hs, date) ==
    Round(SumRats([i \in 1..Len(hs) |->
                      IF Unknown(hs[i], date % 7) THEN <<6, 10>>
                      ELSE Rat(Cardinality({k \in EntriesOn(hs[i], date % 7) :
                                               hs[i].entries[k].completed}),
                               Cardinality(EntriesOn(hs[i], date % 7)))]))

\* the dates a summary list names
NamedDates(list) == UNION {ToSet(list[j].dates) : j \in 1..Len(list)}

\* C24: generatePerformanceForecast(habits, N) returns N days, today and the
\* days after it; the total of the summary is the sum of the days'
\* predictedCompletions; streakRisk names exactly the days whose
\* predictedCompletions is below 40% of the number of habits and
\* improvementOpportunities exactly those above 80%; and a habit with fewer
\* than two entries on the weekday adds 0.6 to the day and puts no string
\* of its own among the day's risk factors and opportunities.
C24_ForecastAndSummary ==
    lastOp = "generatePerformanceForecast" =>
        LET forecast == prediction.result.forecast
            summary == prediction.result.summary
        IN /\ Len(forecast) = prediction.days
           /\ summary.totalPredictedCompletions
                  = SumInts([i \in 1..Len(forecast) |->
                                forecast[i].predictedCompletions])
           /\ Len(summary.streakRisk) <= 1
           /\ NamedDates(summary.streakRisk)
                  = {forecast[i].date : i \in
                        {j \in 1..Len(forecast) :
                            10 * forecast[j].predictedCompletions < 4 * Len(habits)}}
           /\ Len(summary.improvementOpportunities) <= 1
           /\ NamedDates(summary.improvementOpportunities)
                  = {forecast[i].date : i \in
                        {j \in 1..Len(forecast) :
                            10 * forecast[j].predictedCompletions > 8 * Len(habits)}}
           /\ \A i \in 1..Len(forecast) :
                  /\ forecast[i].date = prediction.today + i - 1
                  /\ forecast[i].predictedCompletions
                         = ExpectedCompletions(habits, forecast[i].date)
                  /\ \A h \in 1..Len(habits) :
                         Unknown(habits[h], forecast[i].date % 7)
                         => /\ \A k \in 1..Len(forecast[i].riskFactors) :
                                   forecast[i].riskFactors[k]
                                      # habits[h].title
                                        \o " typically struggles on this day"
                            /\ \A k \in 1..Len(forecast[i].opportunities) :
                                   forecast[i].opportunities[k]
                                      # habits[h].title
                                        \o " performs excellently on this day"

\* A week's forecast for two habits, one of them with too few entries on
\* some day of the week, that names a day at risk and a day to leverage.
C24_Witness ==
    /\ lastOp = "generatePerformanceForecast"
    /\ prediction.days = 7
    /\ Len(habits) = 2
    /\ \E h \in 1..2, d \in 0..6 : Unknown(habits[h], d)
    /\ prediction.result.summary.streakRisk # <<>>
    /\ prediction.result.summary.improvementOpportunities # <<>>

---------------------------------------------------------------------------
(* Properties of the used-key store, checked under SpecSuppress.           *)

\* the "Strong Connection Found" insights that were marked as used
MarkedConnections == {m \in marked : m.title = "Strong Connection Found"}

\* C25: once the "Strong Connection Found" recommendation for two habits is
\* marked as used, the correlation analysis of the same habits listed in the
\* opposite order returns no "Strong Connection Found" for the two, and the
\* mark changes nothing for a pair of habits with other titles.
C25_SuppressedWhateverTheOrder ==
    \A m \in MarkedConnections :
        /\ \A k \in 1..Len(findHabitCorrelations(Reverse(habits),
                                                 usedRecommendations)) :
               {findHabitCorrelations(Reverse(habits), usedRecommendations)[k].data.habit1,
                findHabitCorrelations(Reverse(habits), usedRecommendations)[k].data.habit2}
                   # {m.data.habit1, m.data.habit2}
        /\ \A other \in SuppressSnapshots :
               \A i, j \in 1..Len(other) :
                   (i < j /\ {other[i].title, other[j].title}
                                # {m.data.habit1, m.data.habit2})
                   => CorrelationOfPair(other, usedRecommendations, i, j)
                         = CorrelationOfPair(other,
                               usedRecommendations
                               \ {generateRecommendationKey("habit_correlation",
                                                            m.data)},
                               i, j)

\* the titles of the suggestion rules that fire, in the order of the rules
FiredRules(hs) ==
    (IF (\E i \in 1..Len(hs) : hs[i].category = "Health")
        /\ (\A i \in 1..Len(hs) : ~Mentions(hs[i].title, "water"))
     THEN <<"Drink 8 glasses of water">> ELSE <<>>)
    \o (IF (\E i \in 1..Len(hs) : hs[i].category = "Productivity")
           /\ (\A i \in 1..Len(hs) : ~Mentions(hs[i].title, "meditation"))
        THEN <<"10-minute morning meditation">> ELSE <<>>)
    \o (IF Len(hs) >= 3 /\ (\A i \in 1..Len(hs) : hs[i].category # "Learning")
        THEN <<"Read for 20 minutes">> ELSE <<>>)

\* the titles among ts whose suggestion key is not in used
UnusedTitles(ts, used) ==
    Pick(ts, {k \in 1..Len(ts) : ("suggestion_" \o ts[k]) \notin used})

\* the suggestion insights of an analysis, in the order they were pushed
Suggested(all) ==
    Pick(all, {k \in 1..Len(all) :
                  /\ HasField(all[k].data, "recommendationType")
                  /\ all[k].data.recommendationType = "habit_suggestion"})

\* C26: the suggestions an analysis emits are those of the first two fired
\* rules (hydration, meditation, reading) whose key suggestion_<title> is
\* not used; when the three rules fire, reading is not suggested, whatever
\* has been marked.
C26_CapBeforeUsedFilter ==
    lastOp = "analyzeHabits" =>
        /\ [k \in 1..Len(Suggested(allInsights)) |-> Suggested(allInsights)[k].title]
               = [k \in 1..Len(UnusedTitles(SliceFirst(FiredRules(habits), 2),
                                            usedRecommendations)) |->
                     "Suggested: "
                     \o UnusedTitles(SliceFirst(FiredRules(habits), 2),
                                     usedRecommendations)[k]]
        /\ Len(FiredRules(habits)) = 3
               => \A k \in 1..Len(allInsights) :
                      allInsights[k].title # "Suggested: Read for 20 minutes"

\* The three rules fire, the hydration and the meditation suggestions were
\* both marked as used, and the analysis that follows suggests nothing.
C26_Witness ==
    /\ lastOp = "analyzeHabits"
    /\ Len(FiredRules(habits)) = 3
    /\ {"suggestion_Drink 8 glasses of water",
        "suggestion_10-minute morning meditation"} \subseteq usedRecommendations
    /\ Cardinality({m \in marked : m.data.recommendationType = "habit_suggestion"}) = 2
    /\ Suggested(allInsights) = <<>>

---------------------------------------------------------------------------
(* Properties of the store, checked under SpecStore and SpecComponent.     *)

\* the keys markRecommendationAsUsed computes for a set of insights
KeysOf(ms) ==
    {generateRecommendationKey(m.data.recommendationType, m.data) : m \in ms}

\* C29: after setUsedRecommendations(K) and any markRecommendationAsUsed
\* calls, the set holds K and the keys the calls returned, and nothing
\* else: what it held before K is gone, a mark adds its key, the key
\* returned is the one of the insight marked, and marking an insight again
\* adds nothing.
C29_SetIsHydratedPlusMarked ==
    /\ usedRecommendations = hydrated \cup KeysOf(marked)
    /\ lastOp = "markRecommendationAsUsed"
           => lastKey \in KeysOf(marked) /\ lastKey \in usedRecommendations

\* The set was hydrated with a non-empty K, two insights were marked after
\* that, and another insight on display has a key that is not in the set.
C29_Witness ==
    /\ lastOp = "markRecommendationAsUsed"
    /\ hydrated # {}
    /\ Cardinality(marked) = 2
    /\ \E k \in 1..Len(insights) :
           /\ HasField(insights[k].data, "recommendationType")
           /\ insights[k] \notin marked
           /\ KeysOf({insights[k]}) \cap usedRecommendations = {}

=============================================================================
